---- MODULE Spec2Model ----
(***************************************************************************)
(* The man-in-the-middle proxy of genshin-gacha-exporter (src/mitm):       *)
(* request classification, the detached intercepted and tunnel sessions,   *)
(* the bounded capture channel, the coordinator tap_for_url, the set-up of *)
(* the root certificate (src/mitm/cert.rs), and the API client's query     *)
(* check and paged download of the log (src/client.rs).                    *)
(***************************************************************************)
EXTENDS Integers, Sequences, FiniteSets, TLC

\* ------------------------------------------------------------------ bounds
\* Connections the listener accepts in one run.
MaxConns == 2
\* Inputs the clients and origins feed into one run: outer requests, inner
\* (decrypted) requests and bytes written into tunnels.
MaxInputs == 4
\* Intercepted sessions of the burst workload (SpecBurst).
BurstConns == 1
\* Runs of setup_certificate over one working directory.
MaxRuns == 3
\* Pages of the log the API holds; every later page is empty.
MaxPages == 3
MaxPulls == 4

\* ------------------------------------------------------- program constants
DOMAIN_INTERCEPT == <<"hk4e-api.mihoyo.com", "hk4e-api-os.mihoyo.com">>
PAGE_INTERCEPT_SUFFIX == "getGachaLog"
\* mpsc::channel(16)
ChannelCapacity == 16
\* Default port of the https scheme, which Url serialisation omits.
HttpsDefaultPort == "443"
\* Files of the root certificate and of its private key.
CERT_FILENAME == "ca.cer"
KEY_FILENAME == "ca.key"

\* ------------------------------------------------------------ option types
Some(v) == [some |-> TRUE, val |-> v]
NoneStr == [some |-> FALSE, val |-> ""]
NoAuthority == [some |-> FALSE, val |-> [host |-> "", port |-> ""]]

\* --------------------------------------------------------- string helpers
\* str::ends_with
EndsWith(s, suffix) ==
    /\ Len(s) >= Len(suffix)
    /\ SubSeq(s, Len(s) - Len(suffix) + 1, Len(s)) = suffix

\* ASCII lowercase of one character, as the URL host parser applies it.
LowerChar(ch) ==
    CASE ch = "A" -> "a" [] ch = "B" -> "b" [] ch = "C" -> "c" [] ch = "D" -> "d"
      [] ch = "E" -> "e" [] ch = "F" -> "f" [] ch = "G" -> "g" [] ch = "H" -> "h"
      [] ch = "I" -> "i" [] ch = "J" -> "j" [] ch = "K" -> "k" [] ch = "L" -> "l"
      [] ch = "M" -> "m" [] ch = "N" -> "n" [] ch = "O" -> "o" [] ch = "P" -> "p"
      [] ch = "Q" -> "q" [] ch = "R" -> "r" [] ch = "S" -> "s" [] ch = "T" -> "t"
      [] ch = "U" -> "u" [] ch = "V" -> "v" [] ch = "W" -> "w" [] ch = "X" -> "x"
      [] ch = "Y" -> "y" [] ch = "Z" -> "z" [] OTHER -> ch

RECURSIVE LowerStr(_)
LowerStr(s) ==
    IF Len(s) = 0 THEN ""
    ELSE LowerChar(SubSeq(s, 1, 1)) \o LowerStr(SubSeq(s, 2, Len(s)))

\* ------------------------------------------------------------------ inputs
\* Authorities of outer proxy requests (host, port).
Authorities ==
    { [host |-> "hk4e-api.mihoyo.com", port |-> "443"],
      [host |-> "hk4e-api-os.mihoyo.com", port |-> "443"],
      [host |-> "HK4E-API.mihoyo.com", port |-> "443"],
      [host |-> "example.com", port |-> "443"] }

\* Outer requests: CONNECT to any authority or to none, and an absolute-URI
\* request for the log page of an intercepted host.
OuterRequests ==
    [method : {"CONNECT"}, authority : {NoAuthority} \cup {Some(a) : a \in Authorities},
     path : {""}]
    \cup [method : {"GET"},
          authority : {Some([host |-> "hk4e-api.mihoyo.com", port |-> "443"])},
          path : {"/event/gacha_info/api/getGachaLog"}]

NoRequest == [method |-> "", authority |-> NoAuthority, path |-> ""]

\* Host headers of inner requests: absent, or host with optional port.
HostHeaders ==
    { NoAuthority,
      Some([host |-> "hk4e-api-os.mihoyo.com", port |-> ""]),
      Some([host |-> "HK4E-API-OS.mihoyo.com", port |-> ""]),
      Some([host |-> "hk4e-api-os.mihoyo.com", port |-> "443"]),
      Some([host |-> "example.com", port |-> "8443"]) }

\* Path and query of inner requests.
GachaLogPQ ==
    [path |-> "/event/gacha_info/api/getGachaLog",
     query |-> Some("authkey=ABC&gacha_id=1")]
ConfigPQ ==
    [path |-> "/event/gacha_info/api/getConfigList",
     query |-> Some("next=getGachaLog")]

\* Inner requests: the log page under every Host header, another page under
\* the plain Host header.
InnerRequests ==
    [host : HostHeaders, pq : {GachaLogPQ}]
    \cup [host : {Some([host |-> "hk4e-api-os.mihoyo.com", port |-> ""])},
          pq : {ConfigPQ}]
NoInner == [host |-> NoAuthority, pq |-> [path |-> "", query |-> NoneStr]]

Bytes == {0, 1}
\* Copy directions of a tunnel: client to remote, remote to client.
Dirs == {"c2r", "r2c"}

\* ----------------------------------------------------------- pure functions
\* Authority::as_str / the Host header text.
AuthorityStr(a) == IF a.port = "" THEN a.host ELSE a.host \o ":" \o a.port

\* PathAndQuery::as_str
PathAndQueryStr(pq) ==
    IF pq.query.some THEN pq.path \o "?" \o pq.query.val ELSE pq.path

\* Uri::builder().scheme("https").authority(host).path_and_query(pq), to_string()
NewUriStr(inner) ==
    "https://" \o AuthorityStr(inner.host.val) \o PathAndQueryStr(inner.pq)

\* UrlParse as a parser that loses the query string.
UrlParseDropQuery(inner) ==
    LET a == inner.host.val
        port == IF a.port = HttpsDefaultPort THEN "" ELSE a.port
    IN  "https://" \o AuthorityStr([host |-> LowerStr(a.host), port |-> port])
                   \o inner.pq.path

\* str::parse::<Url>() followed by the Url's serialisation: the host is
\* lowercased and the scheme's default port is dropped; the inputs modelled
\* carry no dot segments and no characters that need percent-encoding.
UrlParse(inner) ==
    LET a == inner.host.val
        host == LowerStr(a.host)
        port == IF a.port = HttpsDefaultPort THEN "" ELSE a.port
    IN  "https://" \o AuthorityStr([host |-> host, port |-> port])
                   \o PathAndQueryStr(inner.pq)

\* PathMatches as a test of the whole path-and-query text.
PathAndQueryMatches(inner) ==
    EndsWith(PathAndQueryStr(inner.pq), PAGE_INTERCEPT_SUFFIX)

\* pq.path().ends_with(PAGE_INTERCEPT_SUFFIX) == Some(true)
PathMatches(inner) == EndsWith(inner.pq.path, PAGE_INTERCEPT_SUFFIX)

\* req.uri().authority().map(|a| a.host())
HostOf(req) ==
    IF req.authority.some THEN Some(req.authority.val.host) ELSE NoneStr

\* DOMAIN_INTERCEPT.iter().any(|&domain| host == Some(domain))
RECURSIVE AnyDomain(_, _)
AnyDomain(host, i) ==
    IF i > Len(DOMAIN_INTERCEPT) THEN FALSE
    ELSE IF host = Some(DOMAIN_INTERCEPT[i]) THEN TRUE
    ELSE AnyDomain(host, i + 1)

\* Classify as a dispatcher that compares hosts without regard to case.
ClassifyIgnoreCase(req) ==
    IF req.method = "CONNECT"
    THEN IF req.authority.some /\ AnyDomain(Some(LowerStr(req.authority.val.host)), 1)
         THEN "intercept" ELSE "tunnel"
    ELSE "forward"

\* MitmService::call: which handler the request is dispatched to.
Classify(req) ==
    IF req.method = "CONNECT"
    THEN IF AnyDomain(HostOf(req), 1) THEN "intercept" ELSE "tunnel"
    ELSE "forward"

\* ------------------------------------------------------------------- state
VARIABLES
    conn,       \* per connection: its handler's or detached task's state
    tun,        \* per connection: the splice of its tunnel task
    chan,       \* buffer of the capture channel
    sent,       \* every value enqueued on the channel, in order
    rx,         \* receiver half of the channel: "open" or "dropped"
    nRecv,      \* values the coordinator has taken from the channel
    svc,        \* the Server still owns the MitmService (and its Sender)
    tap,        \* tap_for_url: "start", "bound", "addr" (before the server is
                \* awaited), "waiting", "draining", "ok", "err"
    final,      \* value passed through the one-shot channel
    result,     \* URL returned by tap_for_url
    nIn,        \* inputs consumed so far
    fs,         \* the working directory: content of each of the two files
    setup,      \* setup_certificate: where the run stands and what it holds
    nRuns,      \* runs of setup_certificate started so far
    nGen,       \* roots generated so far
    bq,         \* the query of the captured URL and the verdict on it
    gl,         \* request_gacha_log: the API's pages and the download so far
    reg,        \* the system proxy settings: "old" (the user's) or "proxy"
                \* (manual proxy at the address of this run's listener)
    saved,      \* old_proxy_settings: "unset" before the block that binds
                \* it, then "none" or "some"
    sm          \* Summary::new: the pulls folded so far and the statistics

chanVars == <<chan, sent, rx, nRecv>>
tapVars == <<svc, tap, final, result>>
proxyVars == <<conn, tun, chanVars, tapVars, nIn>>
certVars == <<fs, setup, nRuns, nGen>>
clientVars == <<bq, gl>>
settingsVars == <<reg, saved>>
reportVars == <<sm>>
\* What the steps of one component leave alone.
nonProxyVars == <<certVars, clientVars, settingsVars, reportVars>>
nonCertVars == <<proxyVars, clientVars, settingsVars, reportVars>>
nonClientVars == <<proxyVars, certVars, settingsVars, reportVars>>
nonReportVars == <<proxyVars, certVars, clientVars, settingsVars>>
vars == <<proxyVars, certVars, clientVars, settingsVars, reportVars>>

Conns == 1..MaxConns

\* Outer connection still owned by the server future.
OuterPhases == {"open", "fwd", "tun_connect"}
\* Detached intercepted session.
MitmPhases == {"mitm_handshake", "mitm_serve", "mitm_send", "mitm_fwd"}
\* Detached tunnel task.
TunnelPhases == {"tun_upgrade", "tun_splice"}

\* A connection: phase is where its handler or task stands, route the
\* handler chosen for its outer request, req that request, inner the inner
\* request being handled, acked whether a success response to CONNECT was
\* returned, tlsTried whether a server-side TLS handshake was attempted,
\* sends the values the session has put on the channel, why the reason it
\* ended.
NewConn ==
    [phase |-> "none", route |-> "none", req |-> NoRequest, inner |-> NoInner,
     acked |-> FALSE, tlsTried |-> FALSE, sends |-> 0, why |-> "none"]

\* A connection or task that has ended; everything it owned is dropped.
Ended(reason) == [NewConn EXCEPT !.phase = "closed", !.why = reason]

\* A splice: the state of each copy (c2r, r2c), the bytes the client wrote
\* (cw) and the remote received (rr), the bytes the remote wrote (rw) and
\* the client received (cr).
NoSplice ==
    [c2r |-> "idle", r2c |-> "idle", cw |-> <<>>, rr |-> <<>>, rw |-> <<>>, cr |-> <<>>]

\* Live clones of the channel's Sender: the server's service, the service of
\* each outer connection, the closure of each intercepted session.
SenderCount ==
    (IF svc THEN 1 ELSE 0)
    + Cardinality({c \in Conns : conn[c].phase \in OuterPhases \cup MitmPhases})

\* ------------------------------------------------- root certificate: data
\* A file of the working directory: absent, or present with its bytes.
Absent == [exists |-> FALSE, bytes |-> <<>>]
FileOf(b) == [exists |-> TRUE, bytes |-> b]

\* The root found in the directory before the first run, when there is one.
OldGen == 0

\* No certificate in hand.
NoRoot == [issued |-> -1, key |-> -1]
NoLeaf == [sans |-> <<>>, signer |-> NoRoot, run |-> 0]

\* Certificate::serialize_der of a root: the DER of the certificate issued
\* in generation ca.issued.
SerializeDer(ca) == <<"cert", ca.issued>>

\* SerializePrivateKeyDer as an export in a form KeyPair::from_der rejects.
SerializePrivateKeyRaw(ca) == <<"rawkey", ca.key>>

\* Certificate::serialize_private_key_der: the PKCS#8 DER of the key pair.
SerializePrivateKeyDer(ca) == <<"key", ca.key>>

\* KeyPair::from_der: the key pair of well-formed PKCS#8 bytes, else an error.
KeyPairFromDer(b) ==
    IF Len(b) = 2 /\ b[1] = "key"
    THEN [ok |-> TRUE, key |-> b[2]]
    ELSE [ok |-> FALSE, key |-> -1]

\* FromCaCertDer as a loader that rejects a key pair which is not the
\* certificate's own.
FromCaCertDerMatchingKey(b, key) ==
    IF Len(b) = 2 /\ b[1] = "cert" /\ b[2] = key
    THEN [ok |-> TRUE, ca |-> [issued |-> b[2], key |-> key]]
    ELSE [ok |-> FALSE, ca |-> NoRoot]

\* CertificateParams::from_ca_cert_der(cert_der, key_pair) and
\* Certificate::from_params: the root named by a well-formed certificate,
\* holding the key pair it was given; else an error.
FromCaCertDer(b, key) ==
    IF Len(b) = 2 /\ b[1] = "cert"
    THEN [ok |-> TRUE, ca |-> [issued |-> b[2], key |-> key]]
    ELSE [ok |-> FALSE, ca |-> NoRoot]

\* What the two files may hold before the first run: nothing, the artifact
\* of an earlier root, bytes that do not parse.
OldCertFiles == {Absent, FileOf(<<"cert", OldGen>>), FileOf(<<"junk">>)}
OldKeyFiles == {Absent, FileOf(<<"key", OldGen>>), FileOf(<<"junk">>)}

\* setup_certificate is not running.  (found: what exists() answered for
\* each path when the run began.)
Idle ==
    [pc |-> "idle", branch |-> "none", ca |-> NoRoot, leaf |-> NoLeaf,
     found |-> [cert |-> FALSE, key |-> FALSE]]

\* setup_certificate has returned Ok in the run that goes on to serve: an
\* earlier root was loaded and the leaf signed by it.
SetupCompleted ==
    /\ fs = [f \in {CERT_FILENAME, KEY_FILENAME} |->
                IF f = CERT_FILENAME THEN FileOf(<<"cert", OldGen>>)
                ELSE FileOf(<<"key", OldGen>>)]
    /\ setup = [pc |-> "done", branch |-> "load",
                ca |-> [issued |-> OldGen, key |-> OldGen],
                leaf |-> [sans |-> DOMAIN_INTERCEPT,
                          signer |-> [issued |-> OldGen, key |-> OldGen],
                          run |-> 1],
                found |-> [cert |-> TRUE, key |-> TRUE]]
    /\ nRuns = 1
    /\ nGen = 0

\* ------------------------------------------------------ API client: data
\* Fields of BaseQuery: the required ones, in the order BaseQuery::new looks
\* them up, and the optional ones.
RequiredFields ==
    <<"authkey_ver", "sign_type", "auth_appid", "gacha_id", "lang", "game_biz",
      "authkey", "region">>
OptionalFields == <<"device_type", "ext", "game_version">>

\* Elements of a sequence.
Range(s) == {s[i] : i \in 1..Len(s)}

\* CollectMap as a collection that keeps the first value of a repeated key.
CollectMapFirstWins(pairs) ==
    [k \in {pairs[i].key : i \in 1..Len(pairs)} |->
        LET first == CHOOSE i \in 1..Len(pairs) :
                         /\ pairs[i].key = k
                         /\ \A j \in 1..Len(pairs) : pairs[j].key = k => i <= j
        IN  pairs[first].value]

\* url.query_pairs().collect::<HashMap>(): each key with the value of its
\* last occurrence.
CollectMap(pairs) ==
    [k \in {pairs[i].key : i \in 1..Len(pairs)} |->
        LET last == CHOOSE i \in 1..Len(pairs) :
                        /\ pairs[i].key = k
                        /\ \A j \in 1..Len(pairs) : pairs[j].key = k => j <= i
        IN  pairs[last].value]

\* value_from_hashmap!(map, ?field)
OptionalValue(map, k) == IF k \in DOMAIN map THEN Some(map[k]) ELSE NoneStr

\* BaseQueryNew as a constructor that requires the optional fields too.
BaseQueryNewAllRequired(pairs) ==
    LET map == CollectMap(pairs)
        all == RequiredFields \o OptionalFields
        lacks == {i \in 1..Len(all) : all[i] \notin DOMAIN map}
    IN  IF lacks # {}
        THEN [ok |-> FALSE,
              missing |-> all[CHOOSE i \in lacks : \A j \in lacks : i <= j],
              fields |-> <<>>]
        ELSE [ok |-> TRUE,
              missing |-> "",
              fields |-> [k \in Range(all) |-> Some(map[k])]]

\* BaseQuery::new: Err naming the first required field the query lacks,
\* else the struct of the eleven fields.
BaseQueryNew(pairs) ==
    LET map == CollectMap(pairs)
        lacks == {i \in 1..Len(RequiredFields) : RequiredFields[i] \notin DOMAIN map}
    IN  IF lacks # {}
        THEN [ok |-> FALSE,
              missing |-> RequiredFields[CHOOSE i \in lacks : \A j \in lacks : i <= j],
              fields |-> <<>>]
        ELSE [ok |-> TRUE,
              missing |-> "",
              fields |-> [k \in Range(RequiredFields) \cup Range(OptionalFields) |->
                            OptionalValue(map, k)]]

\* BaseQuery::as_hashmap: every required field, and each optional field that
\* is Some, under its own name.
AsHashmap(fields) ==
    [k \in Range(RequiredFields) \cup {o \in Range(OptionalFields) : fields[o].some} |->
        fields[k].val]

\* Queries of captured URLs: any of the known fields, each once and in a
\* fixed order, followed by nothing, by a second authkey, or by a field the
\* client does not know.
QueryOf(fields, tail) ==
    LET keys == SelectSeq(RequiredFields \o OptionalFields, LAMBDA k : k \in fields)
    IN  [i \in 1..Len(keys) |-> [key |-> keys[i], value |-> "1"]] \o tail
QueryTails ==
    { <<>>, <<[key |-> "authkey", value |-> "2"]>>, <<[key |-> "timestamp", value |-> "1"]>> }
Queries ==
    { QueryOf(f, t) : f \in SUBSET (Range(RequiredFields) \cup Range(OptionalFields)),
                      t \in QueryTails }

\* No URL is being verified.
NoQuery ==
    [pairs |-> <<>>, done |-> FALSE, accepted |-> FALSE, built |-> FALSE, map |-> <<>>]

\* One answer of the API to a page request: a failure (transport error,
\* undecodable body or non-zero retcode), a body the conversion unwraps and
\* panics on (retcode 0 without data, a pull whose time does not parse or
\* whose rank is none of 3, 4, 5), or the page's list of pulls, newest first.
ApiFailure == [ok |-> FALSE, panics |-> FALSE, list |-> <<>>]
ApiMalformed == [ok |-> TRUE, panics |-> TRUE, list |-> <<>>]
ApiList(l) == [ok |-> TRUE, panics |-> FALSE, list |-> l]

\* What the API may answer for page k: a failure, a malformed body, the
\* empty page, a short page, a full page; pulls are numbered from the newest.
PageResponses(k) ==
    { ApiFailure, ApiMalformed, ApiList(<<>>), ApiList(<<2 * k - 1>>),
      ApiList(<<2 * k - 1, 2 * k>>) }

\* The API's answers for the pages it holds.
Apis ==
    { f \in [1..MaxPages -> UNION {PageResponses(k) : k \in 1..MaxPages}] :
        \A k \in 1..MaxPages : f[k] \in PageResponses(k) }

\* issue_api for page k: the API's answer; past the pages it holds, empty.
ApiPage(api, k) == IF k \in DOMAIN api THEN api[k] ELSE ApiList(<<>>)

\* Vec::reverse as an operation that leaves the order alone.
KeepOrder(s) == s

\* Vec::reverse
RECURSIVE Reverse(_)
Reverse(s) == IF s = <<>> THEN <<>> ELSE Append(Reverse(Tail(s)), Head(s))

\* request_gacha_log is not running.
NoLog ==
    [api |-> [k \in 1..MaxPages |-> ApiList(<<>>)], pc |-> "idle", page |-> 0,
     requested |-> <<>>, pulls |-> <<>>, log |-> <<>>]

\* The system proxy settings are the user's and tap_for_url holds no copy of
\* them: the build is not for Windows, or the user declined the prompt.
SettingsUntouched ==
    /\ reg = "old"
    /\ saved = "none"

\* -------------------------------------------------------- report: data
\* enum Rarity, enum ItemType
Rarities == {"Three", "Four", "Five"}
ItemTypes == {"Weapon", "Character"}

\* The items of the catalogue: one of each rarity and type.  A pull is a
\* reference to its item; its time plays no part in the summary.
Items == [rarity : Rarities, item_type : ItemTypes]

\* IntermediateStatsForRarity::default()
NoStatsForRarity ==
    [num |-> 0, current_streak |-> 0, longest_streak |-> 0,
     current_drought |-> 0, longest_drought |-> 0,
     occurrences |-> [i \in {} |-> 0]]

\* StatsForType::default()
NoStatsForType == [num |-> 0, num_per_rarity |-> [r \in Rarities |-> 0]]

\* cmp::max
Max(a, b) == IF a >= b THEN a ELSE b

\* IntermediateStatsForRarity::update as an update that leaves the drought
\* running when the rarity is pulled.
StatsForRarityUpdateKeepsDrought(stats, rarity, pull) ==
    IF rarity = pull.rarity
    THEN [stats EXCEPT
            !.num = @ + 1,
            !.current_streak = @ + 1,
            !.longest_streak = Max(stats.current_streak + 1, @),
            !.occurrences =
                [i \in DOMAIN @ \cup {pull} |-> (IF i \in DOMAIN @ THEN @[i] ELSE 0)
                                                + (IF i = pull THEN 1 ELSE 0)]]
    ELSE [stats EXCEPT
            !.current_streak = 0,
            !.current_drought = @ + 1,
            !.longest_drought = Max(stats.current_drought + 1, @)]

\* IntermediateStatsForRarity::update
StatsForRarityUpdate(stats, rarity, pull) ==
    IF rarity = pull.rarity
    THEN [stats EXCEPT
            !.num = @ + 1,
            !.current_streak = @ + 1,
            !.longest_streak = Max(stats.current_streak + 1, @),
            !.current_drought = 0,
            !.occurrences =
                [i \in DOMAIN @ \cup {pull} |-> (IF i \in DOMAIN @ THEN @[i] ELSE 0)
                                                + (IF i = pull THEN 1 ELSE 0)]]
    ELSE [stats EXCEPT
            !.current_streak = 0,
            !.current_drought = @ + 1,
            !.longest_drought = Max(stats.current_drought + 1, @)]

\* StatsForType::update as an update that counts the pull but not its rarity.
StatsForTypeUpdateNoRarity(stats, pull) ==
    [stats EXCEPT !.num = @ + 1]

\* StatsForType::update
StatsForTypeUpdate(stats, pull) ==
    [stats EXCEPT !.num = @ + 1, !.num_per_rarity[pull.rarity] = @ + 1]

\* IntermediateSummary::update
SummaryUpdate(s, pull) ==
    [s EXCEPT
        !.len = @ + 1,
        !.stats_per_rarity = [r \in Rarities |-> StatsForRarityUpdate(@[r], r, pull)],
        !.stats_per_type[pull.item_type] = StatsForTypeUpdate(@, pull)]

\* The orders sort_by_key(Reverse(count)) can give the drained occurrences:
\* counts never increase along the list; the order of equal counts is the
\* order in which the HashMap was drained, which is any.
RECURSIVE SortedOccurrences(_)
SortedOccurrences(occ) ==
    IF DOMAIN occ = {} THEN {<<>>}
    ELSE UNION {
            { <<<<x, occ[x]>>>> \o t :
                t \in SortedOccurrences([i \in DOMAIN occ \ {x} |-> occ[i]]) } :
            x \in {y \in DOMAIN occ : \A z \in DOMAIN occ : occ[z] <= occ[y]} }

\* IntermediateSummary::default(), nothing folded yet.
NoSummary ==
    [log |-> <<>>, pc |-> "folding", len |-> 0,
     stats_per_rarity |-> [r \in Rarities |-> NoStatsForRarity],
     stats_per_type |-> [t \in ItemTypes |-> NoStatsForType],
     sorted_occurrence |-> [r \in Rarities |-> <<>>]]

\* No report is being made.
ReportIdle == sm = NoSummary

\* The client has been given nothing to do.
ClientIdle ==
    /\ bq = NoQuery
    /\ gl = NoLog

\* The proxy as make_mitm_server leaves it.
ProxyInit ==
    /\ conn = [c \in Conns |-> NewConn]
    /\ tun = [c \in Conns |-> NoSplice]
    /\ chan = <<>>
    /\ sent = <<>>
    /\ rx = "open"
    /\ nRecv = 0
    /\ svc = TRUE
    /\ tap = "waiting"
    /\ final = NoneStr
    /\ result = NoneStr
    /\ nIn = 0
    /\ SettingsUntouched

\* tap_for_url after setup_certificate and make_mitm_server.
Init == ProxyInit /\ SetupCompleted /\ ClientIdle /\ ReportIdle

\* ------------------------------------------------------------ outer server
\* make_mitm_server: the channel and the service are created and the
\* listener is bound; nothing is polled yet.
MakeServer ==
    /\ tap = "start"
    /\ tap' = "bound"
    /\ svc' = TRUE
    /\ UNCHANGED <<conn, tun, chanVars, final, result, nIn, nonProxyVars>>

\* server.local_addr(): the caller learns the address the listener got.
LocalAddr ==
    /\ tap = "bound"
    /\ tap' = "addr"
    /\ UNCHANGED <<conn, tun, chanVars, svc, final, result, nIn, nonProxyVars>>

\* server.await: the server future, with its shutdown signal, starts being
\* polled.
AwaitServer ==
    /\ tap = "addr"
    /\ tap' = "waiting"
    /\ UNCHANGED <<conn, tun, chanVars, svc, final, result, nIn, nonProxyVars>>

\* The Windows block of tap_for_url: the prompt is answered ("yes", "no") or
\* fails ("err"); on "yes" the current settings are read and the manual
\* proxy is written, and either may fail, which is the error returned.
SetSystemProxy(answer, readOk, writeOk) ==
    /\ tap = "addr"
    /\ saved = "unset"
    /\ IF answer = "no"
       THEN /\ saved' = "none"
            /\ UNCHANGED <<tap, reg>>
       ELSE IF answer = "yes" /\ readOk /\ writeOk
       THEN /\ saved' = "some"
            /\ reg' = "proxy"
            /\ UNCHANGED tap
       ELSE /\ tap' = "err"
            /\ UNCHANGED <<reg, saved>>
    /\ UNCHANGED <<conn, tun, chanVars, svc, final, result, nIn, certVars, clientVars,
                   reportVars>>

\* server.await in the Windows build: the block above has run.
AwaitServerWindows ==
    /\ saved # "unset"
    /\ AwaitServer

\* server.await? returns the server's error: tap_for_url returns it at once,
\* dropping the shutdown future and with it the receiver.
ServerError ==
    /\ tap \in {"waiting", "draining"}
    /\ tap' = "err"
    /\ rx' = "dropped"
    /\ chan' = <<>>
    /\ svc' = FALSE
    /\ UNCHANGED <<conn, tun, sent, nRecv, final, result, nIn, nonProxyVars>>

\* Accept as a listener that hands out connections as soon as it is bound.
AcceptOnceBound(c) ==
    /\ tap \in {"bound", "addr", "waiting"}
    /\ svc
    /\ conn[c].phase = "none"
    /\ IF c = 1 THEN TRUE ELSE conn[c - 1].phase # "none"
    /\ conn' = [conn EXCEPT ![c].phase = "open"]
    /\ UNCHANGED <<tun, chanVars, tapVars, nIn, nonProxyVars>>

\* The listener accepts a connection; the make-service clones MitmService.
Accept(c) ==
    /\ tap = "waiting"
    /\ svc
    /\ conn[c].phase = "none"
    /\ IF c = 1 THEN TRUE ELSE conn[c - 1].phase # "none"
    /\ conn' = [conn EXCEPT ![c].phase = "open"]
    /\ UNCHANGED <<tun, chanVars, tapVars, nIn, nonProxyVars>>

\* Call as a dispatcher whose intercept handler withholds the success
\* response until the detached session has finished its handshake.
CallAwaitsHandshake(c, r, max) ==
    /\ nIn < max
    /\ conn[c].phase = "open"
    /\ LET h == Classify(r) IN
        conn' = [conn EXCEPT ![c] =
                    [@ EXCEPT !.route = h,
                              !.req = r,
                              !.acked = FALSE,
                              !.phase = CASE h = "intercept" -> "mitm_handshake"
                                          [] h = "tunnel" -> "tun_connect"
                                          [] OTHER -> "fwd"]]
    /\ nIn' = nIn + 1
    /\ UNCHANGED <<tun, chanVars, tapVars, nonProxyVars>>

\* MitmService::call on an outer request, up to the handler's first
\* suspension: proxy_intercept spawns its task and returns the success
\* response at once; proxy_pass_tls awaits the outbound connect;
\* proxy_pass_http awaits the upstream response.  (max bounds the inputs of
\* the run.)
Call(c, r, max) ==
    /\ nIn < max
    /\ conn[c].phase = "open"
    /\ LET h == Classify(r) IN
        conn' = [conn EXCEPT ![c] =
                    [@ EXCEPT !.route = h,
                              !.req = r,
                              !.acked = (h = "intercept"),
                              !.phase = CASE h = "intercept" -> "mitm_handshake"
                                          [] h = "tunnel" -> "tun_connect"
                                          [] OTHER -> "fwd"]]
    /\ nIn' = nIn + 1
    /\ UNCHANGED <<tun, chanVars, tapVars, nonProxyVars>>

\* ------------------------------------------------------------ forward path
\* ForwardResponse as a handler whose upstream failure stops the server.
ForwardResponseAborts(c, ok) ==
    /\ conn[c].phase = "fwd"
    /\ conn' = [conn EXCEPT ![c] =
                    IF ~ok THEN Ended("upstream_err")
                    ELSE IF tap = "waiting"
                    THEN [@ EXCEPT !.phase = "open", !.req = NoRequest]
                    ELSE Ended("done")]
    /\ tap' = IF ~ok /\ tap = "waiting" THEN "draining" ELSE tap
    /\ UNCHANGED <<tun, chanVars, svc, final, result, nIn, nonProxyVars>>

\* ForwardResponse as a handler that also taps forwarded requests for the
\* log page.
ForwardResponseTaps(c, ok) ==
    /\ conn[c].phase = "fwd"
    /\ conn' = [conn EXCEPT ![c] =
                    IF ~ok THEN Ended("upstream_err")
                    ELSE IF tap = "waiting"
                    THEN [@ EXCEPT !.phase = "open", !.req = NoRequest]
                    ELSE Ended("done")]
    /\ LET tapped == EndsWith(conn[c].req.path, PAGE_INTERCEPT_SUFFIX) /\ rx = "open"
           url == "http://" \o AuthorityStr(conn[c].req.authority.val) \o conn[c].req.path
       IN  /\ chan' = IF tapped THEN Append(chan, url) ELSE chan
           /\ sent' = IF tapped THEN Append(sent, url) ELSE sent
    /\ UNCHANGED <<tun, rx, nRecv, tapVars, nIn, nonProxyVars>>

\* proxy_pass_http resumes with the upstream result; a failure is returned as
\* the handler's error and the connection ends.  Once shutdown has begun the
\* connection is not kept alive after its response.
ForwardResponse(c, ok) ==
    /\ conn[c].phase = "fwd"
    /\ conn' = [conn EXCEPT ![c] =
                    IF ~ok THEN Ended("upstream_err")
                    ELSE IF tap = "waiting"
                    THEN [@ EXCEPT !.phase = "open", !.req = NoRequest]
                    ELSE Ended("done")]
    /\ UNCHANGED <<tun, chanVars, tapVars, nIn, nonProxyVars>>

\* The client closes an idle outer connection.
ConnClose(c) ==
    /\ conn[c].phase = "open"
    /\ conn' = [conn EXCEPT ![c] = Ended("done")]
    /\ UNCHANGED <<tun, chanVars, tapVars, nIn, nonProxyVars>>

\* ---------------------------------------------------------- intercept path
\* Handshake as a task whose failed handshake shuts the server down.
HandshakeFailureFatal(c, outcome) ==
    /\ conn[c].phase = "mitm_handshake"
    /\ conn' = [conn EXCEPT ![c] =
                    IF outcome = "ok"
                    THEN [@ EXCEPT !.phase = "mitm_serve", !.req = NoRequest,
                                   !.tlsTried = TRUE]
                    ELSE [Ended("handshake_err") EXCEPT !.tlsTried = (outcome = "tls_err")]]
    /\ svc' = IF outcome = "ok" THEN svc ELSE FALSE
    /\ UNCHANGED <<tun, chanVars, tap, final, result, nIn, nonProxyVars>>

\* The detached task of proxy_intercept resumes from upgrade::on and
\* TlsAcceptor::accept: on Ok it starts serving inner requests, otherwise
\* the task ends.
Handshake(c, outcome) ==
    /\ conn[c].phase = "mitm_handshake"
    /\ conn' = [conn EXCEPT ![c] =
                    IF outcome = "ok"
                    THEN [@ EXCEPT !.phase = "mitm_serve", !.req = NoRequest,
                                   !.tlsTried = TRUE]
                    ELSE [Ended("handshake_err") EXCEPT !.tlsTried = (outcome = "tls_err")]]
    /\ UNCHANGED <<tun, chanVars, tapVars, nIn, nonProxyVars>>

\* Send as a closure that forwards the request first and would enqueue the URL
\* only once the origin has answered.
SendAfterForward(c, q, url) ==
    /\ conn' = [conn EXCEPT ![c] = [@ EXCEPT !.phase = "mitm_fwd", !.inner = q]]
    /\ UNCHANGED <<chan, sent>>

\* sender.send(url).await? for inner request q: an error when the receiver
\* is gone, enqueued when the buffer has room, suspended when it is full.
Send(c, q, url) ==
    IF rx = "dropped"
    THEN /\ conn' = [conn EXCEPT ![c] = Ended("send_err")]
         /\ UNCHANGED <<chan, sent>>
    ELSE IF Len(chan) < ChannelCapacity
    THEN /\ conn' = [conn EXCEPT ![c] = [@ EXCEPT !.phase = "mitm_fwd", !.inner = q,
                                                  !.sends = @ + 1]]
         /\ chan' = Append(chan, url)
         /\ sent' = Append(sent, url)
    ELSE /\ conn' = [conn EXCEPT ![c] = [@ EXCEPT !.phase = "mitm_send", !.inner = q]]
         /\ UNCHANGED <<chan, sent>>

\* InnerRequest as a closure that sends the URL only when the Host header
\* names an intercepted domain.
InnerRequestChecksHost(c, q, max) ==
    /\ nIn < max
    /\ conn[c].phase = "mitm_serve"
    /\ nIn' = nIn + 1
    /\ IF ~q.host.some
       THEN /\ conn' = [conn EXCEPT ![c] = Ended("panic")]
            /\ UNCHANGED <<chan, sent>>
       ELSE IF PathMatches(q) /\ AnyDomain(Some(q.host.val.host), 1)
       THEN Send(c, q, UrlParse(q))
       ELSE /\ conn' = [conn EXCEPT ![c] = [@ EXCEPT !.phase = "mitm_fwd", !.inner = q]]
            /\ UNCHANGED <<chan, sent>>
    /\ UNCHANGED <<tun, rx, nRecv, tapVars, nonProxyVars>>

\* The service_fn closure on an inner request, up to its first suspension:
\* rewrite the uri from the Host header (unwrap panics without one), send
\* the URL when the path matches, then issue the upstream request.
InnerRequest(c, q, max) ==
    /\ nIn < max
    /\ conn[c].phase = "mitm_serve"
    /\ nIn' = nIn + 1
    /\ IF ~q.host.some
       THEN /\ conn' = [conn EXCEPT ![c] = Ended("panic")]
            /\ UNCHANGED <<chan, sent>>
       ELSE IF PathMatches(q)
       THEN Send(c, q, UrlParse(q))
       ELSE /\ conn' = [conn EXCEPT ![c] = [@ EXCEPT !.phase = "mitm_fwd", !.inner = q]]
            /\ UNCHANGED <<chan, sent>>
    /\ UNCHANGED <<tun, rx, nRecv, tapVars, nonProxyVars>>

\* SendResume as a wake-up that only room in an open channel gives: dropping
\* the receiver wakes no sender.
SendResumeOnRoomOnly(c) ==
    /\ conn[c].phase = "mitm_send"
    /\ rx = "open"
    /\ Len(chan) < ChannelCapacity
    /\ Send(c, conn[c].inner, UrlParse(conn[c].inner))
    /\ UNCHANGED <<tun, rx, nRecv, tapVars, nIn, nonProxyVars>>

\* A suspended send is woken: the buffer got room or the receiver was dropped.
SendResume(c) ==
    /\ conn[c].phase = "mitm_send"
    /\ IF rx = "dropped" THEN TRUE ELSE Len(chan) < ChannelCapacity
    /\ Send(c, conn[c].inner, UrlParse(conn[c].inner))
    /\ UNCHANGED <<tun, rx, nRecv, tapVars, nIn, nonProxyVars>>

\* client.request(req).await? inside the inner service: the response is
\* relayed, or the error ends the inner connection.
InnerResponse(c, ok) ==
    /\ conn[c].phase = "mitm_fwd"
    /\ conn' = [conn EXCEPT ![c] =
                    IF ok THEN [@ EXCEPT !.phase = "mitm_serve", !.inner = NoInner]
                    ELSE Ended("upstream_err")]
    /\ UNCHANGED <<tun, chanVars, tapVars, nIn, nonProxyVars>>

\* The client closes the terminated session; serve_connection returns.
InnerClose(c) ==
    /\ conn[c].phase = "mitm_serve"
    /\ conn' = [conn EXCEPT ![c] = Ended("done")]
    /\ UNCHANGED <<tun, chanVars, tapVars, nIn, nonProxyVars>>

\* ------------------------------------------------------------- tunnel path
\* ConnectDone as a handler that acknowledges the CONNECT before the outbound
\* connect has resolved.
ConnectDoneAckFirst(c, ok) ==
    /\ conn[c].phase = "tun_connect"
    /\ conn' = [conn EXCEPT ![c] =
                    IF ok THEN [@ EXCEPT !.phase = "tun_upgrade", !.acked = TRUE,
                                         !.req = NoRequest]
                    ELSE [Ended("connect_err") EXCEPT !.acked = TRUE]]
    /\ UNCHANGED <<tun, chanVars, tapVars, nIn, nonProxyVars>>

\* proxy_pass_tls resumes from acquire_connection: on Ok it spawns the splice
\* task and returns the success response, on Err it returns the error.
ConnectDone(c, ok) ==
    /\ conn[c].phase = "tun_connect"
    /\ conn' = [conn EXCEPT ![c] =
                    IF ok THEN [@ EXCEPT !.phase = "tun_upgrade", !.acked = TRUE,
                                         !.req = NoRequest]
                    ELSE Ended("connect_err")]
    /\ UNCHANGED <<tun, chanVars, tapVars, nIn, nonProxyVars>>

\* UpgradeDone as a task that starts its splice only once no intercepted
\* session is running.
UpgradeDoneAfterSessions(c, ok) ==
    /\ conn[c].phase = "tun_upgrade"
    /\ \A d \in Conns \ {c} : conn[d].phase \notin MitmPhases
    /\ conn' = [conn EXCEPT ![c] =
                    IF ok THEN [@ EXCEPT !.phase = "tun_splice"]
                    ELSE Ended("handshake_err")]
    /\ tun' = [tun EXCEPT ![c] =
                    IF ok THEN [@ EXCEPT !.c2r = "run", !.r2c = "run"] ELSE @]
    /\ UNCHANGED <<chanVars, tapVars, nIn, nonProxyVars>>

\* The splice task resumes from upgrade::on: on Ok both copies start.
UpgradeDone(c, ok) ==
    /\ conn[c].phase = "tun_upgrade"
    /\ conn' = [conn EXCEPT ![c] =
                    IF ok THEN [@ EXCEPT !.phase = "tun_splice"]
                    ELSE Ended("handshake_err")]
    /\ tun' = [tun EXCEPT ![c] =
                    IF ok THEN [@ EXCEPT !.c2r = "run", !.r2c = "run"] ELSE @]
    /\ UNCHANGED <<chanVars, tapVars, nIn, nonProxyVars>>

\* An endpoint of a tunnel writes one byte.
EndpointWrite(c, dir, b, max) ==
    /\ nIn < max
    /\ conn[c].phase = "tun_splice"
    /\ IF dir = "c2r"
       THEN /\ tun[c].c2r = "run"
            /\ tun' = [tun EXCEPT ![c].cw = Append(@, b)]
       ELSE /\ tun[c].r2c = "run"
            /\ tun' = [tun EXCEPT ![c].rw = Append(@, b)]
    /\ nIn' = nIn + 1
    /\ UNCHANGED <<conn, chanVars, tapVars, nonProxyVars>>

\* CopyStep as a copy that forwards the newest byte instead of the next one.
CopyStepNewest(src, dst) == Append(dst, src[Len(src)])

\* One read-then-write round of tokio::io::copy: the next unread byte of the
\* source is appended to what the destination has received.
CopyStep(src, dst) == Append(dst, src[Len(dst) + 1])

\* async_copy makes progress in one direction.
Copy(c, dir) ==
    /\ conn[c].phase = "tun_splice"
    /\ IF dir = "c2r"
       THEN /\ tun[c].c2r = "run"
            /\ Len(tun[c].rr) < Len(tun[c].cw)
            /\ tun' = [tun EXCEPT ![c].rr = CopyStep(tun[c].cw, @)]
       ELSE /\ tun[c].r2c = "run"
            /\ Len(tun[c].cr) < Len(tun[c].rw)
            /\ tun' = [tun EXCEPT ![c].cr = CopyStep(tun[c].rw, @)]
    /\ UNCHANGED <<conn, chanVars, tapVars, nIn, nonProxyVars>>

\* One copy reads end-of-stream after everything before it was copied and
\* returns Ok; try_join! completes once both copies returned Ok, the task
\* ends and both streams are dropped.
CopyEof(c, dir) ==
    /\ conn[c].phase = "tun_splice"
    /\ IF dir = "c2r"
       THEN tun[c].c2r = "run" /\ Len(tun[c].rr) = Len(tun[c].cw)
       ELSE tun[c].r2c = "run" /\ Len(tun[c].cr) = Len(tun[c].rw)
    /\ IF (IF dir = "c2r" THEN tun[c].r2c ELSE tun[c].c2r) = "eof"
       THEN /\ conn' = [conn EXCEPT ![c] = Ended("done")]
            /\ tun' = [tun EXCEPT ![c] = NoSplice]
       ELSE /\ tun' = [tun EXCEPT ![c] =
                          IF dir = "c2r" THEN [@ EXCEPT !.c2r = "eof"]
                          ELSE [@ EXCEPT !.r2c = "eof"]]
            /\ UNCHANGED conn
    /\ UNCHANGED <<chanVars, tapVars, nIn, nonProxyVars>>

\* CopyErr as a copy error that tears down every connection of the proxy.
CopyErrClosesAll(c, dir) ==
    /\ conn[c].phase = "tun_splice"
    /\ IF dir = "c2r" THEN tun[c].c2r = "run" ELSE tun[c].r2c = "run"
    /\ conn' = [d \in Conns |->
                    IF d = c THEN Ended("copy_err")
                    ELSE IF conn[d].phase \in {"none", "closed"} THEN conn[d]
                    ELSE Ended("done")]
    /\ tun' = [d \in Conns |-> NoSplice]
    /\ UNCHANGED <<chanVars, tapVars, nIn, nonProxyVars>>

\* One copy returns Err; try_join! returns at once and the task ends.
CopyErr(c, dir) ==
    /\ conn[c].phase = "tun_splice"
    /\ IF dir = "c2r" THEN tun[c].c2r = "run" ELSE tun[c].r2c = "run"
    /\ conn' = [conn EXCEPT ![c] = Ended("copy_err")]
    /\ tun' = [tun EXCEPT ![c] = NoSplice]
    /\ UNCHANGED <<chanVars, tapVars, nIn, nonProxyVars>>

\* -------------------------------------------------------------- coordinator
\* RecvValue as a receiver that yields the newest buffered value.
RecvNewest(buffer) == buffer[Len(buffer)]

\* The value receiver.recv() resolves with on a non-empty buffer.
RecvValue(buffer) == Head(buffer)

\* Recv as a shutdown that also aborts every connection and task in flight.
RecvAbortsSessions ==
    /\ tap = "waiting"
    /\ rx = "open"
    /\ Len(chan) > 0
    /\ final' = Some(RecvValue(chan))
    /\ nRecv' = nRecv + 1
    /\ chan' = <<>>
    /\ rx' = "dropped"
    /\ tap' = "draining"
    /\ svc' = FALSE
    /\ conn' = [c \in Conns |->
                    IF conn[c].phase \in {"none", "closed"} THEN conn[c] ELSE Ended("done")]
    /\ tun' = [c \in Conns |-> NoSplice]
    /\ UNCHANGED <<sent, result, nIn, nonProxyVars>>

\* The graceful-shutdown future of tap_for_url: recv() resolves with the
\* oldest buffered value, or with None once every Sender is gone and the
\* buffer is empty; the result goes into the one-shot channel, the future
\* completes and drops the receiver, and the server stops accepting.
Recv ==
    /\ tap = "waiting"
    /\ rx = "open"
    /\ IF Len(chan) > 0 THEN TRUE ELSE SenderCount = 0
    /\ final' = IF Len(chan) > 0 THEN Some(RecvValue(chan)) ELSE NoneStr
    /\ nRecv' = IF Len(chan) > 0 THEN nRecv + 1 ELSE nRecv
    /\ chan' = <<>>
    /\ rx' = "dropped"
    /\ tap' = "draining"
    /\ svc' = FALSE
    /\ UNCHANGED <<conn, tun, sent, result, nIn, nonProxyVars>>

\* The server releases its MitmService without a shutdown signal (the arm
\* of recv() that yields None needs every Sender to be gone).
ServiceDropped ==
    /\ tap = "waiting"
    /\ svc
    /\ svc' = FALSE
    /\ UNCHANGED <<conn, tun, chanVars, tap, final, result, nIn, nonProxyVars>>

\* TapResult as a return that reports success whatever the one-shot holds.
TapResultAlwaysOk(f) == "ok"

\* final_receiver.await?.ok_or_else(..): Ok(url) for Some, the error for None.
TapResult(f) == IF f.some THEN "ok" ELSE "err"

\* Finish as a return that writes the saved settings back whether or not a
\* URL was received.
FinishRestoresAlways(written) ==
    /\ tap' = IF final.some /\ saved = "some" /\ ~written THEN "err" ELSE TapResult(final)
    /\ result' = IF tap' = "ok" THEN final ELSE NoneStr
    /\ reg' = IF saved = "some" /\ written THEN "old" ELSE reg

\* tap_for_url once the server future has returned Ok: the one-shot value is
\* read; with a URL and saved settings the settings are written back, which
\* succeeds (written) or is the error returned; then Ok(url).
Finish(written) ==
    LET restores == final.some /\ saved = "some"
    IN  /\ tap' = IF restores /\ ~written THEN "err" ELSE TapResult(final)
        /\ result' = IF tap' = "ok" THEN final ELSE NoneStr
        /\ reg' = IF restores /\ written THEN "old" ELSE reg

\* The outcomes of writing the settings back that make a difference.
RestoreOutcomes == IF final.some /\ saved = "some" THEN BOOLEAN ELSE {TRUE}

\* ServerDone as a shutdown that does not wait for the outer connections.
ServerDoneEarly ==
    /\ tap = "draining"
    /\ \E written \in RestoreOutcomes : Finish(written)
    /\ UNCHANGED <<conn, tun, chanVars, svc, final, nIn, certVars, clientVars, saved, reportVars>>

\* server.await returns once no outer connection is in flight; the one-shot
\* value decides between Ok(url) and the "broken pipe" error.
ServerDone ==
    /\ tap = "draining"
    /\ \A c \in Conns : conn[c].phase \notin OuterPhases
    /\ \E written \in RestoreOutcomes : Finish(written)
    /\ UNCHANGED <<conn, tun, chanVars, svc, final, nIn, certVars, clientVars, saved, reportVars>>

\* ---------------------------------------------- root certificate: set-up
\* SetupStart as a run that generates a new root whatever the directory
\* holds.
SetupStartAlwaysGenerates ==
    /\ setup.pc \in {"idle", "done", "failed"}
    /\ nRuns < MaxRuns
    /\ nRuns' = nRuns + 1
    /\ setup' = [Idle EXCEPT !.pc = "generate", !.branch = "generate",
                              !.found = [cert |-> fs[CERT_FILENAME].exists,
                                         key |-> fs[KEY_FILENAME].exists]]
    /\ UNCHANGED <<fs, nGen, nonCertVars>>

\* A run of setup_certificate begins: both files present selects the load
\* branch, anything else the generate branch.
SetupStart ==
    /\ setup.pc \in {"idle", "done", "failed"}
    /\ nRuns < MaxRuns
    /\ nRuns' = nRuns + 1
    /\ LET b == IF fs[CERT_FILENAME].exists /\ fs[KEY_FILENAME].exists
                THEN "load" ELSE "generate"
       IN  setup' = [Idle EXCEPT !.pc = b, !.branch = b,
                                  !.found = [cert |-> fs[CERT_FILENAME].exists,
                                             key |-> fs[KEY_FILENAME].exists]]
    /\ UNCHANGED <<fs, nGen, nonCertVars>>

\* The load branch: read both files, parse the key, parse the certificate
\* with it; any error is returned.  Nothing is written.
Load(readable) ==
    /\ setup.pc = "load"
    /\ LET kp == KeyPairFromDer(fs[KEY_FILENAME].bytes)
           ld == FromCaCertDer(fs[CERT_FILENAME].bytes, kp.key)
       IN  setup' = IF readable /\ kp.ok /\ ld.ok
                    THEN [setup EXCEPT !.pc = "leaf", !.ca = ld.ca]
                    ELSE [setup EXCEPT !.pc = "failed"]
    /\ UNCHANGED <<fs, nRuns, nGen, nonCertVars>>

\* The generate branch: a new key pair and root certificate.
Generate(ok) ==
    /\ setup.pc = "generate"
    /\ IF ok
       THEN /\ nGen' = nGen + 1
            /\ setup' = [setup EXCEPT !.pc = "write_cert",
                                      !.ca = [issued |-> nGen + 1, key |-> nGen + 1]]
       ELSE /\ setup' = [setup EXCEPT !.pc = "failed"]
            /\ UNCHANGED nGen
    /\ UNCHANGED <<fs, nRuns, nonCertVars>>

\* File::create, write_all, sync_all on path f with bytes b: create fails
\* and leaves the file as it was, or the file is truncated and the write
\* fails, or the file holds b.
WriteFile(f, b, outcome) ==
    CASE outcome = "create_err" -> fs
      [] outcome = "write_err" -> [fs EXCEPT ![f] = FileOf(<<>>)]
      [] OTHER -> [fs EXCEPT ![f] = FileOf(b)]

\* The certificate file is written.
WriteCert(outcome) ==
    /\ setup.pc = "write_cert"
    /\ fs' = WriteFile(CERT_FILENAME, SerializeDer(setup.ca), outcome)
    /\ setup' = [setup EXCEPT !.pc = IF outcome = "ok" THEN "write_key" ELSE "failed"]
    /\ UNCHANGED <<nRuns, nGen, nonCertVars>>

\* WriteKey as a step that keeps a key file that is already there.
WriteKeyKeepsExisting(outcome) ==
    /\ setup.pc = "write_key"
    /\ fs' = IF fs[KEY_FILENAME].exists THEN fs
             ELSE WriteFile(KEY_FILENAME, SerializePrivateKeyDer(setup.ca), outcome)
    /\ setup' = [setup EXCEPT !.pc = IF outcome = "ok" THEN "leaf" ELSE "failed"]
    /\ UNCHANGED <<nRuns, nGen, nonCertVars>>

\* The key file is written.
WriteKey(outcome) ==
    /\ setup.pc = "write_key"
    /\ fs' = WriteFile(KEY_FILENAME, SerializePrivateKeyDer(setup.ca), outcome)
    /\ setup' = [setup EXCEPT !.pc = IF outcome = "ok" THEN "leaf" ELSE "failed"]
    /\ UNCHANGED <<nRuns, nGen, nonCertVars>>

\* Leaf as a step that returns the self-signed certificate of the sites.
LeafSelfSigned(ok) ==
    /\ setup.pc = "leaf"
    /\ setup' = IF ok
                THEN [setup EXCEPT !.pc = "done",
                                   !.leaf = [sans |-> DOMAIN_INTERCEPT, signer |-> NoRoot,
                                             run |-> nRuns]]
                ELSE [setup EXCEPT !.pc = "failed"]
    /\ UNCHANGED <<fs, nRuns, nGen, nonCertVars>>

\* The certificate of the intercepted sites is generated in this run and
\* signed by the root in hand; it is returned, never written.
Leaf(ok) ==
    /\ setup.pc = "leaf"
    /\ setup' = IF ok
                THEN [setup EXCEPT !.pc = "done",
                                   !.leaf = [sans |-> DOMAIN_INTERCEPT, signer |-> setup.ca,
                                             run |-> nRuns]]
                ELSE [setup EXCEPT !.pc = "failed"]
    /\ UNCHANGED <<fs, nRuns, nGen, nonCertVars>>

\* The process dies in the middle of a run; what it held in memory is lost.
Crash ==
    /\ setup.pc \in {"load", "generate", "write_cert", "write_key", "leaf"}
    /\ setup' = Idle
    /\ UNCHANGED <<fs, nRuns, nGen, nonCertVars>>

\* ------------------------------------------------------------ API client
\* Client::verify_url on the URL in hand.
VerifyUrl ==
    /\ ~bq.done
    /\ bq' = [bq EXCEPT !.done = TRUE, !.accepted = BaseQueryNew(bq.pairs).ok]
    /\ UNCHANGED <<gl, nonClientVars>>

\* Client::new keeps BaseQuery::new(&url)? and issue_api starts the query of
\* a request from its as_hashmap().
BuildQuery ==
    /\ bq.done
    /\ bq.accepted
    /\ ~bq.built
    /\ bq' = [bq EXCEPT !.built = TRUE, !.map = AsHashmap(BaseQueryNew(bq.pairs).fields)]
    /\ UNCHANGED <<gl, nonClientVars>>

\* request_gacha_log is called: the page stream starts at 1.
RequestGachaLog ==
    /\ gl.pc = "idle"
    /\ gl' = [gl EXCEPT !.pc = "fetching", !.page = 1]
    /\ UNCHANGED <<bq, nonClientVars>>

\* FetchPage as a step that hands back what it collected when a page fails.
FetchPageKeepsPartial ==
    /\ gl.pc = "fetching"
    /\ LET r == ApiPage(gl.api, gl.page)
           asked == [gl EXCEPT !.requested = Append(@, gl.page)]
       IN  gl' = IF ~r.ok
                 THEN [asked EXCEPT !.pc = "err", !.log = Reverse(gl.pulls)]
                 ELSE IF r.panics
                 THEN [asked EXCEPT !.pc = "panic", !.pulls = <<>>]
                 ELSE IF r.list = <<>>
                 THEN [asked EXCEPT !.pc = "ok", !.log = Reverse(gl.pulls)]
                 ELSE [asked EXCEPT !.pulls = @ \o r.list, !.page = @ + 1]
    /\ UNCHANGED <<bq, nonClientVars>>

\* The stream is polled: the next page is requested and awaited.  A failure
\* ends the collection with the error, a malformed body unwinds the call, an
\* empty page ends the stream and the collected pulls are reversed, any other
\* page is appended.
FetchPage ==
    /\ gl.pc = "fetching"
    /\ LET r == ApiPage(gl.api, gl.page)
           asked == [gl EXCEPT !.requested = Append(@, gl.page)]
       IN  gl' = IF ~r.ok
                 THEN [asked EXCEPT !.pc = "err", !.pulls = <<>>]
                 ELSE IF r.panics
                 THEN [asked EXCEPT !.pc = "panic", !.pulls = <<>>]
                 ELSE IF r.list = <<>>
                 THEN [asked EXCEPT !.pc = "ok", !.log = Reverse(gl.pulls)]
                 ELSE [asked EXCEPT !.pulls = @ \o r.list, !.page = @ + 1]
    /\ UNCHANGED <<bq, nonClientVars>>

\* ------------------------------------------------------------------ report
\* One step of the fold in Summary::new: the next pull of the log is folded
\* into the intermediate summary.
Update(pull) ==
    /\ sm.pc = "folding"
    /\ Len(sm.log) < MaxPulls
    /\ sm' = [SummaryUpdate(sm, pull) EXCEPT !.log = Append(@, pull)]
    /\ UNCHANGED nonReportVars

\* The fold is over: the intermediate summary is converted into the Summary,
\* the occurrences of each rarity drained and sorted by count.
Into ==
    /\ sm.pc = "folding"
    /\ \E so \in [Rarities -> UNION {SortedOccurrences(sm.stats_per_rarity[r].occurrences) :
                                      r \in Rarities}] :
        /\ \A r \in Rarities :
              so[r] \in SortedOccurrences(sm.stats_per_rarity[r].occurrences)
        /\ sm' = [sm EXCEPT !.pc = "done", !.sorted_occurrence = so]
    /\ UNCHANGED nonReportVars

\* ----------------------------------------------------------- specifications
\* One run of the proxy.  With MaxInputs below ChannelCapacity the buffer
\* never fills, so no send is ever suspended here (see SpecBurst).
Next ==
    \/ \E c \in Conns : Accept(c)
    \/ \E c \in Conns, r \in OuterRequests : Call(c, r, MaxInputs)
    \/ \E c \in Conns, ok \in BOOLEAN : ForwardResponse(c, ok)
    \/ \E c \in Conns : ConnClose(c)
    \/ \E c \in Conns, o \in {"ok", "upgrade_err", "tls_err"} : Handshake(c, o)
    \/ \E c \in Conns, q \in InnerRequests : InnerRequest(c, q, MaxInputs)
    \/ \E c \in Conns, ok \in BOOLEAN : InnerResponse(c, ok)
    \/ \E c \in Conns : InnerClose(c)
    \/ \E c \in Conns, ok \in BOOLEAN : ConnectDone(c, ok)
    \/ \E c \in Conns, ok \in BOOLEAN : UpgradeDone(c, ok)
    \/ \E c \in Conns, d \in Dirs, b \in Bytes : EndpointWrite(c, d, b, MaxInputs)
    \/ \E c \in Conns, d \in Dirs : Copy(c, d)
    \/ \E c \in Conns, d \in Dirs : CopyEof(c, d)
    \/ \E c \in Conns, d \in Dirs : CopyErr(c, d)
    \/ Recv
    \/ ServerDone

Spec == Init /\ [][Next]_vars

\* The same run in an environment that may take every Sender away: the arm
\* of recv() that yields None is reachable only here.
NextClosed == Next \/ ServiceDropped

SpecClosed == Init /\ [][NextClosed]_vars

\* The same run from the return of setup_certificate on: the server is made,
\* its address read, and only then awaited.
InitStartup ==
    /\ conn = [c \in Conns |-> NewConn]
    /\ tun = [c \in Conns |-> NoSplice]
    /\ chan = <<>>
    /\ sent = <<>>
    /\ rx = "open"
    /\ nRecv = 0
    /\ svc = FALSE
    /\ tap = "start"
    /\ final = NoneStr
    /\ result = NoneStr
    /\ nIn = 0
    /\ SetupCompleted
    /\ ClientIdle
    /\ SettingsUntouched
    /\ ReportIdle

NextStartup == MakeServer \/ LocalAddr \/ AwaitServer \/ Next

SpecStartup == InitStartup /\ [][NextStartup]_vars

\* A burst of log-page requests over intercepted sessions, long enough to
\* fill the channel's buffer before the coordinator is polled.
BurstInputs == ChannelCapacity + 3
BurstConnect ==
    [method |-> "CONNECT",
     authority |-> Some([host |-> "hk4e-api-os.mihoyo.com", port |-> "443"]),
     path |-> ""]
BurstRequest ==
    [host |-> Some([host |-> "hk4e-api-os.mihoyo.com", port |-> ""]), pq |-> GachaLogPQ]

NextBurst ==
    \/ \E c \in 1..BurstConns : Accept(c)
    \/ \E c \in 1..BurstConns : Call(c, BurstConnect, BurstInputs)
    \/ \E c \in 1..BurstConns : Handshake(c, "ok")
    \/ \E c \in 1..BurstConns : InnerRequest(c, BurstRequest, BurstInputs)
    \/ \E c \in 1..BurstConns : SendResume(c)
    \/ \E c \in 1..BurstConns : InnerResponse(c, TRUE)
    \/ Recv
    \/ ServerDone

SpecBurst == Init /\ [][NextBurst]_vars

\* The burst on a runtime that polls every task that is ready: the shutdown
\* future is polled once the channel holds a value, and a sender is polled
\* once its send has been woken.
FairBurst ==
    /\ WF_vars(Recv)
    /\ \A c \in 1..BurstConns : WF_vars(SendResume(c))

SpecBurstFair == SpecBurst /\ FairBurst

\* The burst beside one tunnel to a host outside the intercept set, which
\* is the connection after the burst's sessions.
MixedTunnel == BurstConns + 1
MixedInputs == BurstInputs + 1
TunnelConnect ==
    [method |-> "CONNECT",
     authority |-> Some([host |-> "example.com", port |-> "443"]),
     path |-> ""]

NextMixed ==
    \/ \E c \in 1..MixedTunnel : Accept(c)
    \/ \E c \in 1..BurstConns : Call(c, BurstConnect, MixedInputs)
    \/ Call(MixedTunnel, TunnelConnect, MixedInputs)
    \/ \E c \in 1..BurstConns : Handshake(c, "ok")
    \/ \E c \in 1..BurstConns : InnerRequest(c, BurstRequest, MixedInputs)
    \/ \E c \in 1..BurstConns : SendResume(c)
    \/ \E c \in 1..BurstConns : InnerResponse(c, TRUE)
    \/ \E ok \in BOOLEAN : ConnectDone(MixedTunnel, ok)
    \/ \E ok \in BOOLEAN : UpgradeDone(MixedTunnel, ok)
    \/ \E d \in Dirs : CopyEof(MixedTunnel, d)
    \/ \E d \in Dirs : CopyErr(MixedTunnel, d)
    \/ Recv
    \/ ServerDone

SpecMixed == Init /\ [][NextMixed]_vars

\* A run of tap_for_url in the Windows build, from the return of
\* setup_certificate on, with intercepted sessions for the log page, in an
\* environment where the server may fail and every Sender may go away.
InitSettings ==
    /\ conn = [c \in Conns |-> NewConn]
    /\ tun = [c \in Conns |-> NoSplice]
    /\ chan = <<>>
    /\ sent = <<>>
    /\ rx = "open"
    /\ nRecv = 0
    /\ svc = FALSE
    /\ tap = "start"
    /\ final = NoneStr
    /\ result = NoneStr
    /\ nIn = 0
    /\ SetupCompleted
    /\ ClientIdle
    /\ ReportIdle
    /\ reg = "old"
    /\ saved = "unset"

NextSettings ==
    \/ MakeServer
    \/ LocalAddr
    \/ \E a \in {"yes", "no", "err"}, r, w \in BOOLEAN : SetSystemProxy(a, r, w)
    \/ AwaitServerWindows
    \/ \E c \in Conns : Accept(c)
    \/ \E c \in Conns : Call(c, BurstConnect, MaxInputs)
    \/ \E c \in Conns : ConnClose(c)
    \/ \E c \in Conns : Handshake(c, "ok")
    \/ \E c \in Conns : InnerRequest(c, BurstRequest, MaxInputs)
    \/ \E c \in Conns, ok \in BOOLEAN : InnerResponse(c, ok)
    \/ \E c \in Conns : InnerClose(c)
    \/ Recv
    \/ ServiceDropped
    \/ ServerError
    \/ ServerDone

SpecSettings == InitSettings /\ [][NextSettings]_vars

\* Runs of setup_certificate over a directory that may already hold files;
\* the proxy has not been started.
InitSetup ==
    /\ ProxyInit
    /\ ClientIdle
    /\ ReportIdle
    /\ fs \in [{CERT_FILENAME, KEY_FILENAME} -> OldCertFiles \cup OldKeyFiles]
    /\ fs[CERT_FILENAME] \in OldCertFiles
    /\ fs[KEY_FILENAME] \in OldKeyFiles
    /\ setup = Idle
    /\ nRuns = 0
    /\ nGen = 0

NextSetup ==
    \/ SetupStart
    \/ \E ok \in BOOLEAN : Load(ok)
    \/ \E ok \in BOOLEAN : Generate(ok)
    \/ \E o \in {"ok", "create_err", "write_err"} : WriteCert(o)
    \/ \E o \in {"ok", "create_err", "write_err"} : WriteKey(o)
    \/ \E ok \in BOOLEAN : Leaf(ok)
    \/ Crash

SpecSetup == InitSetup /\ [][NextSetup]_vars

\* The same runs over a directory that holds no root.
InitFresh ==
    /\ InitSetup
    /\ fs = [f \in {CERT_FILENAME, KEY_FILENAME} |-> Absent]

SpecFresh == InitFresh /\ [][NextSetup]_vars

\* Client::verify_url on a captured URL; nothing else is running.
InitQuery ==
    /\ ProxyInit
    /\ SetupCompleted
    /\ bq \in {[NoQuery EXCEPT !.pairs = p] : p \in Queries}
    /\ gl = NoLog
    /\ ReportIdle

NextQuery == VerifyUrl \/ BuildQuery

SpecQuery == InitQuery /\ [][NextQuery]_vars

\* request_gacha_log against an API with any answers; nothing else is
\* running.
InitLog ==
    /\ ProxyInit
    /\ SetupCompleted
    /\ bq = NoQuery
    /\ gl \in {[NoLog EXCEPT !.api = a] : a \in Apis}
    /\ ReportIdle

NextLog == RequestGachaLog \/ FetchPage

SpecLog == InitLog /\ [][NextLog]_vars

\* Summary::new over any log of at most MaxPulls pulls; nothing else is
\* running.
NextSummary ==
    \/ \E pull \in Items : Update(pull)
    \/ Into

SpecSummary == Init /\ [][NextSummary]_vars

\* ------------------------------------------------------------------ claims
\* The hosts the proxy is documented to intercept.
InterceptHosts == {"hk4e-api.mihoyo.com", "hk4e-api-os.mihoyo.com"}

\* The outer request names an intercepted host, exactly and with its case.
TargetsInterceptHost(r) ==
    r.authority.some /\ r.authority.val.host \in InterceptHosts

\* C1: every outer request being handled is on exactly one path: Intercept iff
\* it is a CONNECT whose authority host is exactly one of the intercepted
\* hosts, Tunnel iff it is any other CONNECT (a missing authority included),
\* Forward iff its method is not CONNECT.
C1_Classification ==
    \A c \in Conns :
        conn[c].req # NoRequest =>
            LET r == conn[c].req
                onIntercept == conn[c].route = "intercept" /\ conn[c].phase = "mitm_handshake"
                onTunnel == conn[c].route = "tunnel" /\ conn[c].phase = "tun_connect"
                onForward == conn[c].route = "forward" /\ conn[c].phase = "fwd"
            IN  /\ onIntercept <=> (r.method = "CONNECT" /\ TargetsInterceptHost(r))
                /\ onTunnel <=> (r.method = "CONNECT" /\ ~TargetsInterceptHost(r))
                /\ onForward <=> (r.method # "CONNECT")
                /\ Cardinality({b \in {onIntercept, onTunnel, onForward} : b}) = 1

\* C1 witness: a CONNECT to an intercepted host is being intercepted while a
\* CONNECT to the same name in upper case is being tunnelled.
C1_Witness ==
    \E c, d \in Conns :
        /\ conn[c].req.authority.val.host = "hk4e-api.mihoyo.com"
        /\ conn[c].req.method = "CONNECT"
        /\ conn[c].route = "intercept"
        /\ conn[d].req.authority.val.host = "HK4E-API.mihoyo.com"
        /\ conn[d].route = "tunnel"

\* Session c enqueues a value on the capture channel in this step.
Enqueues(c) ==
    /\ Len(sent') = Len(sent) + 1
    /\ conn[c].phase \in {"mitm_serve", "mitm_send"}
    /\ conn'[c].phase = "mitm_fwd"

\* The text "https://" + Host header + path + query of an inner request.
VerbatimUrl(q) ==
    "https://"
        \o (IF q.host.val.port = "" THEN q.host.val.host
            ELSE q.host.val.host \o ":" \o q.host.val.port)
        \o q.pq.path
        \o (IF q.pq.query.some THEN "?" \o q.pq.query.val ELSE "")

\* The Host header is already in the form a parsed URL keeps: lower case and
\* without the default port of https.
HostIsCanonical(q) ==
    /\ q.host.val.host = LowerStr(q.host.val.host)
    /\ q.host.val.port # "443"

C3_FirstUrlOnly ==
    /\ nRecv <= 1
    /\ final.some => (Len(sent) >= 1 /\ final.val = sent[1])
    /\ tap = "ok" => (nRecv = 1 /\ result = Some(sent[1]))
    /\ result.some => tap = "ok"

\* C3 witness: two sessions open at once enqueued different URLs and
\* tap_for_url returned the first.
C3_Witness ==
    /\ tap = "ok"
    /\ Len(sent) = 2
    /\ sent[1] # sent[2]
    /\ result.val = sent[1]
    /\ \E c, d \in Conns : c # d /\ conn[c].phase = "mitm_fwd" /\ conn[d].phase = "mitm_fwd"

\* C4 as claimed: no intercepted session is ended by a failed send on the
\* capture channel; a matching request that finds the channel closed is
\* forwarded like any other.
C4_ClosedChannelTolerated ==
    \A c \in Conns : conn[c].why # "send_err"

\* C5 as claimed: no session is ever suspended in a send on the capture
\* channel, also when the buffer holds ChannelCapacity values.
C5_SendNeverSuspends ==
    \A c \in Conns : conn[c].phase # "mitm_send"

\* C6: an inner request whose path does not end with the sentinel suffix puts
\* nothing on the channel and is forwarded, and a forwarded request ends with
\* its response relayed or with the upstream error.
C6_NoCaptureWithoutSuffix ==
    [][\A c \in Conns :
          /\ ( /\ conn[c].phase = "mitm_serve"
               /\ conn'[c].inner # NoInner
               /\ ~EndsWith(conn'[c].inner.pq.path, "getGachaLog") )
             => (sent' = sent /\ chan' = chan /\ conn'[c].phase = "mitm_fwd")
          /\ ( /\ conn[c].phase = "mitm_fwd"
               /\ conn'[c].phase # "mitm_fwd" )
             => (conn'[c].phase = "mitm_serve" \/ conn'[c].why = "upstream_err")]_vars

\* C6 witness: a request for another page, whose query ends with the suffix,
\* is being forwarded and nothing was ever enqueued.
C6_Witness ==
    \E c \in Conns :
        /\ conn[c].phase = "mitm_fwd"
        /\ conn[c].inner.pq = ConfigPQ
        /\ sent = <<>>

\* C7: once the coordinator has received the first URL no connection is
\* accepted any more, and the step in which it receives leaves every
\* connection, session and tunnel as it was.
C7_GracefulShutdown ==
    [][/\ tap # "waiting" =>
            \A c \in Conns : conn[c].phase = "none" => conn'[c].phase = "none"
       /\ (tap = "waiting" /\ tap' # "waiting") => (conn' = conn /\ tun' = tun)]_vars

\* C7 witness: tap_for_url has received the URL while an intercepted session
\* and a tunnel that has copied a byte are still running.
C7_Witness ==
    /\ tap = "draining"
    /\ nRecv = 1
    /\ \E c, d \in Conns :
        /\ conn[c].phase = "mitm_fwd"
        /\ conn[d].phase = "tun_splice"
        /\ Len(tun[d].rr) = 1

\* C8: as long as the channel has delivered no value tap_for_url returns no
\* URL, and when the channel closed with no value it returns the error.
C8_NoUrlWithoutValue ==
    nRecv = 0 =>
        /\ tap # "ok"
        /\ ~result.some
        /\ rx = "dropped" => (~final.some /\ tap \in {"draining", "err"})

\* C8 witness: the channel closed with nothing ever enqueued and tap_for_url
\* returned the error.
C8_Witness ==
    /\ tap = "err"
    /\ rx = "dropped"
    /\ nRecv = 0
    /\ sent = <<>>

IsPrefix(s, t) == Len(s) <= Len(t) /\ s = SubSeq(t, 1, Len(s))

\* C10: on a tunnel the remote has received a prefix of what the client
\* wrote and the client a prefix of what the remote wrote, and no TLS
\* handshake is attempted on it; only tunnels carry a splice.
C10_TransparentSplice ==
    \A c \in Conns :
        /\ conn[c].route = "tunnel" =>
            /\ IsPrefix(tun[c].rr, tun[c].cw)
            /\ IsPrefix(tun[c].cr, tun[c].rw)
            /\ ~conn[c].tlsTried
        /\ conn[c].route # "tunnel" => tun[c] = NoSplice

\* C10 witness: a tunnel to a host outside the set has delivered two
\* different bytes to the remote in order, and one byte to the client.
C10_Witness ==
    \E c \in Conns :
        /\ conn[c].route = "tunnel"
        /\ conn[c].phase = "tun_splice"
        /\ tun[c].cw = <<0, 1>>
        /\ tun[c].rr = <<0, 1>>
        /\ tun[c].cr = <<1>>

\* C11 as claimed: a splice never outlives one of its copies; while a tunnel
\* is spliced both directions are running, and the first end-of-stream or
\* error ends the task.
C11_SpliceEndsTogether ==
    \A c \in Conns :
        conn[c].phase = "tun_splice" => (tun[c].c2r = "run" /\ tun[c].r2c = "run")

\* C12: on the tunnel path the success response follows the outbound
\* connect: a handler waiting for the connect has answered nothing and
\* spawned nothing; it leaves that wait either acknowledged into the splice
\* task or ended with the connect error, unacknowledged and without a
\* splice; and a splice exists only behind an acknowledgment.
C12_ConnectBeforeAck ==
    [][\A c \in Conns :
          /\ conn'[c].phase = "tun_connect" => (~conn'[c].acked /\ tun'[c] = NoSplice)
          /\ conn'[c].why = "connect_err" => (~conn'[c].acked /\ tun'[c] = NoSplice)
          /\ conn'[c].phase \in TunnelPhases => conn'[c].acked
          /\ (conn[c].phase = "tun_connect" /\ conn'[c] # conn[c]) =>
                \/ conn'[c].phase = "tun_upgrade" /\ conn'[c].acked
                \/ conn'[c] = Ended("connect_err")
          /\ (conn'[c].phase \in TunnelPhases /\ conn[c].phase \notin TunnelPhases) =>
                conn[c].phase = "tun_connect"]_vars

\* C12 witness: one CONNECT ended with the connect error, unacknowledged,
\* while another was acknowledged after its connect and is being spliced.
C12_Witness ==
    \E c, d \in Conns :
        /\ conn[c].why = "connect_err"
        /\ ~conn[c].acked
        /\ tun[c] = NoSplice
        /\ conn[d].phase = "tun_splice"
        /\ conn[d].acked

\* C13: on the intercept path the handler acknowledges the CONNECT in the
\* very step that dispatches it, with the detached session's upgrade and TLS
\* handshake still unresolved; whatever the session does afterwards, it does
\* behind an acknowledgment already given.
C13_OptimisticAck ==
    [][\A c \in Conns :
          /\ (conn[c].phase = "open" /\ conn'[c].route = "intercept") =>
                /\ conn'[c].acked
                /\ conn'[c].phase = "mitm_handshake"
                /\ ~conn'[c].tlsTried
          /\ conn[c].phase \in MitmPhases => conn[c].acked
          /\ (conn[c].phase = "mitm_handshake" /\ conn'[c] # conn[c]) =>
                conn'[c].phase \in {"mitm_serve", "closed"}]_vars

\* C13 witness: a CONNECT to an intercepted host is acknowledged while its
\* handshake has not resolved, and another was acknowledged although its TLS
\* handshake then failed.
C13_Witness ==
    \E c, d \in Conns :
        /\ conn[c].phase = "mitm_handshake"
        /\ conn[c].acked
        /\ ~conn[c].tlsTried
        /\ conn[d].why = "handshake_err"
        /\ conn[d].tlsTried

\* C14: the step in which the upgrade or the TLS handshake of an intercepted
\* session fails ends that session, which has served no inner request and
\* sent nothing, and leaves the channel, the listener, the coordinator and
\* every other connection as they were.
C14_HandshakeFailureIsolated ==
    [][\A c \in Conns :
          (conn[c].phase = "mitm_handshake" /\ conn'[c].phase = "closed") =>
            /\ conn'[c].why = "handshake_err"
            /\ conn[c].inner = NoInner
            /\ conn[c].sends = 0 /\ conn'[c].sends = 0
            /\ chanVars' = chanVars
            /\ tapVars' = tapVars
            /\ \A d \in Conns \ {c} : conn'[d] = conn[d] /\ tun'[d] = tun[d]]_vars

\* C14 witness: the upgrade of one intercepted session failed while another
\* session, whose captured request is being forwarded, goes on and the
\* listener is still accepting.
C14_Witness ==
    \E c, d \in Conns :
        /\ conn[c].why = "handshake_err"
        /\ ~conn[c].tlsTried
        /\ conn[d].phase = "mitm_fwd"
        /\ conn[d].sends = 1
        /\ tap = "waiting"
        /\ svc

\* Ends of a connection or session by a failure of its own.
LocalFailures == {"upstream_err", "connect_err", "copy_err", "panic"}

\* C15: a step in which a connection or session ends by a failure of its own
\* (upstream connect or request failure, copy error, inner request without
\* a Host header) leaves the listener, the coordinator, the channel and
\* every sibling connection as they were.
C15_FailuresIsolated ==
    [][\A c \in Conns :
          ( /\ conn[c].phase # "closed"
            /\ conn'[c].phase = "closed"
            /\ conn'[c].why \in LocalFailures ) =>
            /\ tapVars' = tapVars
            /\ chanVars' = chanVars
            /\ \A d \in Conns \ {c} : conn'[d] = conn[d] /\ tun'[d] = tun[d]]_vars

\* C15 witness: an intercepted session died on a request without a Host
\* header and a tunnel on a copy error, and tap_for_url is still waiting
\* with the listener accepting.
C15_Witness ==
    /\ tap = "waiting"
    /\ svc
    /\ rx = "open"
    /\ \E c, d \in Conns :
        /\ conn[c].why = "panic"
        /\ conn[d].why = "copy_err"

\* An intercepted session and a tunnel are open side by side.
SideBySide(c, d) ==
    /\ c # d
    /\ conn[c].phase \in MitmPhases
    /\ conn[d].phase \in {"tun_connect"} \cup TunnelPhases

\* The next step of intercepted session c can be taken: its handshake
\* resolves, its upstream answers, its client closes, its send resumes.
InterceptCanStep(c) ==
    ENABLED (Handshake(c, "ok") \/ InnerResponse(c, TRUE) \/ InnerClose(c) \/ SendResume(c))

\* The next step of tunnel d can be taken: its connect or upgrade resolves,
\* a copy moves a byte, reads end-of-stream or fails.
TunnelCanStep(d) ==
    ENABLED ( \/ ConnectDone(d, TRUE) \/ UpgradeDone(d, TRUE)
              \/ \E dir \in Dirs : Copy(d, dir) \/ CopyEof(d, dir) \/ CopyErr(d, dir) )

\* C16: while an intercepted session and a tunnel are open side by side, the
\* tunnel can take its next step in every state of the session, a send
\* suspended on the full channel included, and the session can take its own
\* in every state of the tunnel; a session suspended in a send waits for the
\* channel, never for the tunnel.
C16_NoHeadOfLineBlocking ==
    \A c, d \in Conns :
        SideBySide(c, d) =>
            /\ TunnelCanStep(d)
            /\ conn[c].phase # "mitm_send" => InterceptCanStep(c)
            /\ conn[c].phase = "mitm_send" =>
                    (InterceptCanStep(c) <=> (rx = "dropped" \/ Len(chan) < ChannelCapacity))

\* C16 witness: a tunnel is waiting for its outbound connect while the
\* intercepted session beside it is suspended in a send on the full channel.
C16_Witness ==
    \E c, d \in Conns :
        /\ SideBySide(c, d)
        /\ conn[c].phase = "mitm_send"
        /\ Len(chan) = ChannelCapacity
        /\ conn[d].phase = "tun_connect"

\* Connection c is on the forward or the tunnel path.
Untapped(c) == conn[c].route \in {"forward", "tunnel"}

\* C17: a step of a connection on the forward or the tunnel path puts
\* nothing on the capture channel, whatever its request target, and every
\* value that is put there comes from an inner request of an intercepted
\* session whose TLS was terminated.
C17_OnlyInterceptSends ==
    [][/\ \A c \in Conns :
            ( /\ Untapped(c) \/ conn'[c].route \in {"forward", "tunnel"}
              /\ conn'[c] # conn[c] \/ tun'[c] # tun[c] ) =>
                /\ sent' = sent
                /\ chan' = chan
                /\ conn'[c].sends = 0
       /\ sent' # sent =>
            \E c \in Conns :
                /\ Enqueues(c)
                /\ conn[c].route = "intercept"
                /\ conn[c].tlsTried
                /\ conn'[c].inner # NoInner]_vars

\* C17 witness: an absolute-URI request whose path ends with the suffix is
\* being forwarded and a tunnel has carried a byte, and nothing was ever put
\* on the channel.
C17_Witness ==
    /\ sent = <<>>
    /\ \E c, d \in Conns :
        /\ conn[c].phase = "fwd"
        /\ EndsWith(conn[c].req.path, PAGE_INTERCEPT_SUFFIX)
        /\ conn[d].phase = "tun_splice"
        /\ Len(tun[d].rr) = 1

\* C18 as claimed: an intercepted session puts at most one value on the
\* capture channel in its lifetime.
C18_AtMostOneSend ==
    \A c \in Conns : conn[c].sends <= 1

\* Both root artifacts exist in directory d and parse.
BothParse(d) ==
    /\ d[CERT_FILENAME].exists
    /\ d[KEY_FILENAME].exists
    /\ KeyPairFromDer(d[KEY_FILENAME].bytes).ok
    /\ FromCaCertDer(d[CERT_FILENAME].bytes, KeyPairFromDer(d[KEY_FILENAME].bytes).key).ok

\* The root that the bytes of the two files of directory d parse to.
RootOf(d) ==
    FromCaCertDer(d[CERT_FILENAME].bytes, KeyPairFromDer(d[KEY_FILENAME].bytes).key).ca

\* A run of setup_certificate begins in this step.
RunBegins == nRuns' = nRuns + 1

\* C19: a run that begins with both artifacts present and parseable takes
\* the load branch; in that branch no step writes a file or generates a
\* root, and the root it goes on with is the one the two files hold.
C19_ReuseWritesNothing ==
    [][/\ (RunBegins /\ BothParse(fs)) => (setup'.branch = "load" /\ fs' = fs /\ nGen' = nGen)
       /\ (setup.branch = "load" /\ setup.pc \in {"load", "leaf"} /\ BothParse(fs)) =>
            /\ fs' = fs
            /\ nGen' = nGen
            /\ setup'.pc \in {"leaf", "done"} => setup'.ca = RootOf(fs)]_vars

\* C19 witness: a run over the artifacts of an earlier root completed in the
\* load branch; the files are as they were and nothing was generated.
C19_Witness ==
    /\ setup.pc = "done"
    /\ setup.branch = "load"
    /\ nGen = 0
    /\ setup.ca = [issued |-> OldGen, key |-> OldGen]
    /\ fs[CERT_FILENAME] = FileOf(<<"cert", OldGen>>)
    /\ fs[KEY_FILENAME] = FileOf(<<"key", OldGen>>)

\* C20: over a directory that held no root, the first run takes the
\* generate branch and, when it gets past both writes, the files hold the
\* certificate and the key of the root it generated; every run that begins
\* after a completed run takes the load branch; the load branch writes and
\* generates nothing; and the root a load goes on with is the last generated
\* one, which is what the files have held since it was persisted.
C20_LoadAfterCreate ==
    [][/\ (RunBegins /\ nRuns = 0) => setup'.branch = "generate"
       /\ (setup.pc = "write_key" /\ setup'.pc = "leaf") =>
            /\ fs'[CERT_FILENAME] = FileOf(SerializeDer(setup.ca))
            /\ fs'[KEY_FILENAME] = FileOf(SerializePrivateKeyDer(setup.ca))
       /\ (RunBegins /\ setup.pc = "done") => setup'.branch = "load"
       /\ setup.branch = "load" => (fs' = fs /\ nGen' = nGen)
       /\ setup'.pc = "done" =>
            /\ BothParse(fs')
            /\ setup'.ca = RootOf(fs')
            /\ setup'.ca = [issued |-> nGen', key |-> nGen']
            /\ nGen' >= 1]_vars

\* C20 witness: the first run generated and persisted a root, and the third
\* run, like the second, loaded that same root from files that still hold
\* what the first run wrote.
C20_Witness ==
    /\ nRuns = 3
    /\ nGen = 1
    /\ setup.pc = "done"
    /\ setup.branch = "load"
    /\ setup.ca = [issued |-> 1, key |-> 1]
    /\ fs[CERT_FILENAME] = FileOf(<<"cert", 1>>)
    /\ fs[KEY_FILENAME] = FileOf(<<"key", 1>>)

\* File f of directory d is present and does not parse as what it should
\* hold.
Corrupt(d, f) ==
    /\ d[f].exists
    /\ IF f = KEY_FILENAME THEN ~KeyPairFromDer(d[f].bytes).ok
       ELSE ~FromCaCertDer(d[f].bytes, 0).ok

\* C21 as claimed: no step of certificate set-up replaces an artifact that is
\* present but unparseable.
C21_CorruptNeverReplaced ==
    [][\A f \in {CERT_FILENAME, KEY_FILENAME} :
          Corrupt(fs, f) => fs'[f] = fs[f]]_vars

\* C22: a run that begins with an artifact missing takes the generate
\* branch; that branch generates a root once, in its first step; and when it
\* returns Ok both files hold the certificate and the key of that root,
\* whatever they held before.
C22_GenerateBoth ==
    [][/\ (RunBegins /\ ~(fs[CERT_FILENAME].exists /\ fs[KEY_FILENAME].exists)) =>
            setup'.branch = "generate"
       /\ setup.branch = "generate" =>
            nGen' = IF setup.pc = "generate" /\ setup'.pc = "write_cert"
                    THEN nGen + 1 ELSE nGen
       /\ (setup'.branch = "generate" /\ setup'.pc = "done") =>
            /\ setup'.ca = [issued |-> nGen', key |-> nGen']
            /\ fs'[CERT_FILENAME] = FileOf(SerializeDer(setup'.ca))
            /\ fs'[KEY_FILENAME] = FileOf(SerializePrivateKeyDer(setup'.ca))]_vars

\* C22 witness: the first run found a key file but no certificate, and
\* returned with both files holding the root it generated.
C22_Witness ==
    /\ setup.pc = "done"
    /\ setup.branch = "generate"
    /\ setup.found = [cert |-> FALSE, key |-> TRUE]
    /\ nRuns = 1
    /\ fs[CERT_FILENAME] = FileOf(<<"cert", 1>>)
    /\ fs[KEY_FILENAME] = FileOf(<<"key", 1>>)

\* The two files of directory d parse to a certificate of one generation and
\* a key of another.
Mismatched(d) == BothParse(d) /\ RootOf(d).issued # RootOf(d).key

\* The process dies in this step with the certificate file written and the
\* key file not yet written.
CrashAfterCert == setup.pc = "write_key" /\ setup'.pc = "idle"

\* C23 as claimed: a crash between the two writes leaves a mismatched pair
\* for the next run to load.
C23_CrashLeavesMismatch ==
    [][CrashAfterCert => Mismatched(fs')]_vars

\* C23 as amended: a crash between the two writes leaves the certificate of
\* the crashed generation beside whatever key file was there before; that
\* is a mismatched pair exactly when a parseable key was there, and then the
\* next run loads it and signs with it; with no key file the next run
\* generates again.
C23_MismatchOnlyOverOldKey ==
    [][/\ CrashAfterCert =>
            /\ fs'[CERT_FILENAME] = FileOf(SerializeDer([issued |-> nGen, key |-> nGen]))
            /\ fs'[KEY_FILENAME] = fs[KEY_FILENAME]
            /\ Mismatched(fs') <=>
                    (fs[KEY_FILENAME].exists /\ KeyPairFromDer(fs[KEY_FILENAME].bytes).ok)
       /\ (RunBegins /\ ~fs[KEY_FILENAME].exists) => setup'.branch = "generate"
       /\ (RunBegins /\ Mismatched(fs)) => setup'.branch = "load"
       /\ (setup.pc = "load" /\ setup'.pc = "leaf") => setup'.ca = RootOf(fs)
       /\ setup'.pc = "done" => setup'.leaf.signer = setup'.ca]_vars

\* C23 witness: after an interrupted first run that had found a key but no
\* certificate, the second run loaded the new certificate with the old key
\* and signed the leaf with that pair.
C23_Witness ==
    /\ nRuns = 2
    /\ nGen = 1
    /\ setup.pc = "done"
    /\ setup.branch = "load"
    /\ setup.ca = [issued |-> 1, key |-> OldGen]
    /\ setup.leaf.signer = setup.ca

\* C24: whenever certificate set-up has returned Ok, the leaf it returned
\* names exactly the intercepted hosts, was minted in that run and is signed
\* by the root in hand, which in the load branch is the root the files parse
\* to and in the generate branch the root generated last; a run begins with
\* no leaf, and minting the leaf writes no file.
C24_LeafPerRun ==
    [][/\ setup'.pc = "done" =>
            /\ Range(setup'.leaf.sans) = InterceptHosts
            /\ setup'.leaf.signer = setup'.ca
            /\ setup'.leaf.run = nRuns'
            /\ setup'.branch = "load" => setup'.ca = RootOf(fs')
            /\ setup'.branch = "generate" => setup'.ca = [issued |-> nGen', key |-> nGen']
       /\ RunBegins => setup'.leaf = NoLeaf
       /\ setup'.leaf # setup.leaf => fs' = fs
       /\ \A f \in {CERT_FILENAME, KEY_FILENAME} :
            fs'[f].exists =>
                (fs'[f].bytes = <<>> \/ fs'[f].bytes[1] \in {"cert", "key", "junk"})]_vars

\* C24 witness: the first run generated a root and signed its leaf with it,
\* and the second run loaded that root and signed a leaf of its own.
C24_Witness ==
    /\ nRuns = 2
    /\ nGen = 1
    /\ setup.pc = "done"
    /\ setup.branch = "load"
    /\ setup.leaf = [sans |-> DOMAIN_INTERCEPT, signer |-> [issued |-> 1, key |-> 1], run |-> 2]

\* Some connection has been accepted.
Handling == \E c \in Conns : conn[c].phase # "none"

\* C25: the first connection is accepted only while the server future is
\* being awaited; awaiting begins only after the bound listener's address
\* has been read, and the address is read only from a bound listener.
C25_AddressBeforeHandling ==
    [][/\ Handling' => tap' \notin {"start", "bound", "addr"}
       /\ (~Handling /\ Handling') => (tap = "waiting" /\ svc)
       /\ (tap' = "waiting" /\ tap # "waiting") => tap = "addr"
       /\ (tap' = "addr" /\ tap # "addr") => (tap = "bound" /\ svc)
       /\ (tap' = "bound" /\ tap # "bound") => tap = "start"]_vars

\* C25 witness: after the start-up steps a CONNECT to an intercepted host is
\* being served.
C25_Witness ==
    /\ tap = "waiting"
    /\ \E c \in Conns :
        /\ conn[c].route = "intercept"
        /\ conn[c].phase = "mitm_serve"

\* The eight fields a gacha URL must carry, and the three it may carry.
RequiredNames ==
    {"authkey_ver", "sign_type", "auth_appid", "gacha_id", "lang", "game_biz",
     "authkey", "region"}
OptionalNames == {"device_type", "ext", "game_version"}

\* The keys that occur in a query.
KeysOf(pairs) == {pairs[i].key : i \in 1..Len(pairs)}

\* C26: verify_url accepts a URL iff every one of the eight required fields
\* occurs in its query, and its verdict is the verdict on the same query
\* without the optional fields.
C26_VerifyUrl ==
    bq.done =>
        /\ bq.accepted <=> (RequiredNames \subseteq KeysOf(bq.pairs))
        /\ bq.accepted <=>
            BaseQueryNew(SelectSeq(bq.pairs, LAMBDA p : p.key \notin OptionalNames)).ok

\* C26 witness: a URL with the eight required fields and no optional one was
\* accepted.
C26_Witness ==
    /\ bq.done
    /\ bq.accepted
    /\ KeysOf(bq.pairs) = RequiredNames

\* The pulls of pages 1..n of the API, in the order the API lists them.
RECURSIVE PagesUpTo(_, _)
PagesUpTo(api, n) ==
    IF n = 0 THEN <<>> ELSE PagesUpTo(api, n - 1) \o ApiPage(api, n).list

\* A sequence read from its last element to its first.
Backwards(s) == [i \in 1..Len(s) |-> s[Len(s) + 1 - i]]

\* The page answered with a proper, non-empty list.
NonEmptyPage(api, k) ==
    LET r == ApiPage(api, k) IN r.ok /\ ~r.panics /\ r.list # <<>>

\* C27: the pages requested so far are 1, 2, .., n in that order, every
\* requested page before the last was non-empty, and a successful return
\* follows an empty page n and yields the pulls of pages 1..n-1 read backwards.
C27_PagesInOrder ==
    LET n == Len(gl.requested)
    IN  /\ gl.requested = [i \in 1..n |-> i]
        /\ \A k \in 1..(n - 1) : NonEmptyPage(gl.api, k)
        /\ gl.pc = "fetching" => gl.page = n + 1
        /\ gl.pc = "ok" =>
            /\ n >= 1
            /\ ApiPage(gl.api, n) = ApiList(<<>>)
            /\ gl.log = Backwards(PagesUpTo(gl.api, n - 1))

\* C27 witness: two full pages then an empty one were fetched and the log
\* returned is oldest first.
C27_Witness ==
    /\ gl.pc = "ok"
    /\ gl.requested = <<1, 2, 3>>
    /\ gl.log = <<4, 3, 2, 1>>

Enqueued == {sent[i] : i \in 1..Len(sent)}

\* Session c has handed its inner request to the outbound client.
Forwarded(c) == conn[c].phase = "mitm_fwd"

\* C29: whenever a matching inner request is with the outbound client its URL
\* has already been put on the channel, and the end of that request, whatever
\* its outcome, takes nothing off the channel and undoes no delivery.
C29_EnqueueBeforeForward ==
    [][\A c \in Conns :
        /\ Forwarded(c)' /\ PathMatches(conn'[c].inner) =>
            /\ UrlParse(conn'[c].inner) \in Enqueued'
            /\ conn'[c].sends >= 1
        /\ Forwarded(c) /\ ~Forwarded(c)' =>
            /\ chan' = chan
            /\ sent' = sent
            /\ final' = final
            /\ result' = result ]_vars

\* C29 witness: the caller was handed the URL of a matching request that is
\* still outstanding at the origin.
C29_Witness ==
    \E c \in Conns :
        /\ Forwarded(c)
        /\ PathMatches(conn[c].inner)
        /\ tap = "ok"
        /\ result = Some(UrlParse(conn[c].inner))

\* C30: tap_for_url leaves its wait for the server only in a step in which no
\* outer connection is open or has a request in flight, so it stays there
\* while a forwarded request is outstanding; only then does it hold a result.
C30_ReturnAfterServer ==
    [][ /\ tap = "draining" /\ tap' # "draining" =>
            \A c \in Conns : conn[c].phase \notin OuterPhases
        /\ (\E c \in Conns : conn[c].phase = "fwd") => tap' \notin {"ok", "err"}
        /\ result'.some => tap' = "ok" ]_vars

\* C30 witness: tap_for_url returned the URL while an intercepted session and
\* a tunnel are still running.
C30_Witness ==
    /\ tap = "ok"
    /\ result.some
    /\ \E c \in Conns : conn[c].phase \in MitmPhases
    /\ \E c \in Conns : conn[c].phase \in TunnelPhases

\* Session c is suspended in a send on the capture channel.
Suspended(c) == conn[c].phase = "mitm_send"

\* C31: under fair scheduling a session suspended in a send does not stay
\* suspended; a suspended send ends only with the receiver dropped and with
\* an error, and once the receiver is dropped no send is suspended anew.
C31_NoSendWaitsForever ==
    /\ \A c \in Conns : Suspended(c) ~> ~Suspended(c)
    /\ [][\A c \in Conns :
            /\ Suspended(c) /\ ~Suspended(c)' =>
                rx = "dropped" /\ conn'[c].why = "send_err"
            /\ ~Suspended(c) /\ Suspended(c)' => rx' = "open" ]_vars

\* C31 witness: the coordinator has consumed the first value and dropped the
\* receiver while a session is still suspended on the buffer that was full.
C31_Witness ==
    /\ rx = "dropped"
    /\ nRecv = 1
    /\ Len(sent) = ChannelCapacity
    /\ \E c \in Conns : Suspended(c)

\* The start of a URL whose host is the Host header's, as a parsed URL
\* writes it.
HostHeaderPrefix(q) == "https://" \o LowerStr(q.host.val.host)

\* Session c takes up an inner request in this step.
TakesInner(c) ==
    /\ conn[c].phase = "mitm_serve"
    /\ conn'[c].phase \in {"mitm_fwd", "mitm_send"}

\* C32: a session is admitted to interception on the host of its CONNECT
\* request, which it no longer holds when it serves inner requests; an inner
\* request is forwarded to the authority of its Host header, and when its
\* path matches and the channel is open its URL, with the Host header's
\* host, is put on the channel whatever that host is.
C32_AuthorityFromHostHeader ==
    [][\A c \in Conns :
        /\ conn'[c].phase = "mitm_handshake" =>
            conn'[c].req.method = "CONNECT" /\ TargetsInterceptHost(conn'[c].req)
        /\ TakesInner(c) =>
            LET q == conn'[c].inner
            IN  /\ conn[c].route = "intercept"
                /\ conn[c].req = NoRequest
                /\ IsPrefix("https://" \o AuthorityStr(q.host.val), NewUriStr(q))
                /\ PathMatches(q) /\ rx = "open" => Enqueues(c)
                /\ Enqueues(c) => IsPrefix(HostHeaderPrefix(q), sent'[Len(sent')]) ]_vars

\* C32 witness: inside a session admitted for an intercepted host a request
\* with another Host header was forwarded, and tap_for_url returned a URL of
\* that other host.
C32_Witness ==
    /\ tap = "ok"
    /\ IsPrefix("https://example.com", result.val)
    /\ \E c \in Conns :
        /\ conn[c].phase = "mitm_fwd"
        /\ conn[c].route = "intercept"
        /\ conn[c].inner.host.val.host = "example.com"

\* tap_for_url has returned.
Returned == tap \in {"ok", "err"}

\* C33: the settings tap_for_url replaced go back to the user's only in the
\* step that returns after a URL was received; a run that replaced them and
\* returns an error without a URL leaves them on this run's proxy, and a run
\* that returns the URL has written them back.
C33_RestoreOnlyOnSuccess ==
    /\ [][reg = "proxy" /\ reg' = "old" =>
            /\ saved = "some"
            /\ final.some
            /\ tap = "draining" /\ tap' = "ok" ]_vars
    /\ [](tap = "err" /\ saved = "some" /\ ~final.some => reg = "proxy")
    /\ [](tap = "ok" /\ saved = "some" => reg = "old")
    /\ [](saved # "some" => reg = "old")

\* C33 witness: the run replaced the settings, the channel closed with no
\* value, and tap_for_url returned the error with the system proxy still on
\* the stopped proxy.
C33_Witness ==
    /\ tap = "err"
    /\ saved = "some"
    /\ rx = "dropped"
    /\ nRecv = 0
    /\ reg = "proxy"

\* The eleven field names a BaseQuery knows.
KnownNames == RequiredNames \cup OptionalNames

\* v is the value of the last pair with key k.
LastValue(pairs, k, v) ==
    \E i \in 1..Len(pairs) :
        /\ pairs[i].key = k
        /\ pairs[i].value = v
        /\ \A j \in (i + 1)..Len(pairs) : pairs[j].key # k

\* C34: the map built from the BaseQuery of a URL has exactly the known
\* field names that occur in the URL's query as its keys, each with the
\* value of its last occurrence.
C34_AsHashmapOfNew ==
    bq.built =>
        /\ DOMAIN bq.map = KeysOf(bq.pairs) \cap KnownNames
        /\ \A k \in DOMAIN bq.map : LastValue(bq.pairs, k, bq.map[k])

\* C34 witness: a URL with two authkey values, one optional field and without
\* ext gave a map with the later authkey, that optional field and no ext.
C34_Witness ==
    /\ bq.built
    /\ Cardinality({i \in 1..Len(bq.pairs) : bq.pairs[i].key = "authkey"}) = 2
    /\ bq.map["authkey"] = "2"
    /\ "device_type" \in DOMAIN bq.map
    /\ "ext" \notin DOMAIN bq.map

\* C34 witness, second case: a parameter the client does not know was in the
\* URL and is not in the map.
C34_Dropped ==
    /\ bq.built
    /\ "timestamp" \in KeysOf(bq.pairs)
    /\ "timestamp" \notin DOMAIN bq.map

\* The sum of f over the finite set S.
RECURSIVE SumOver(_, _)
SumOver(S, f) ==
    IF S = {} THEN 0
    ELSE LET x == CHOOSE y \in S : TRUE
         IN  f[x] + SumOver(S \ {x}, f)

\* C35: whatever was folded, len is the number of pulls, the num of the
\* rarities add up to len, the num of the item types add up to len, and the
\* num of each item type is the sum of its num_per_rarity.
C35_CountsAddUp ==
    /\ sm.len = Len(sm.log)
    /\ SumOver(Rarities, [r \in Rarities |-> sm.stats_per_rarity[r].num]) = sm.len
    /\ SumOver(ItemTypes, [t \in ItemTypes |-> sm.stats_per_type[t].num]) = sm.len
    /\ \A t \in ItemTypes :
        sm.stats_per_type[t].num = SumOver(Rarities, sm.stats_per_type[t].num_per_rarity)

\* C35 witness: a finished summary of MaxPulls pulls of both item types and
\* of more than one rarity.
C35_Witness ==
    /\ sm.pc = "done"
    /\ sm.len = MaxPulls
    /\ \A t \in ItemTypes : sm.stats_per_type[t].num >= 1
    /\ Cardinality({r \in Rarities : sm.stats_per_rarity[r].num >= 1}) >= 2

\* The length of the longest run of consecutive pulls of the log that are
\* (of = TRUE) or are not (of = FALSE) of rarity r; 0 when there is none.
LongestRun(log, r, of) ==
    LET runs == {<<i, j>> \in (1..Len(log)) \X (1..Len(log)) :
                    /\ i <= j
                    /\ \A k \in i..j : (log[k].rarity = r) = of}
    IN  IF runs = {} THEN 0
        ELSE LET best == CHOOSE p \in runs :
                            \A q \in runs : q[2] - q[1] <= p[2] - p[1]
             IN  best[2] - best[1] + 1

\* The number of pulls after the last pull of rarity r, the whole length when
\* there is none.
SinceLast(log, r) ==
    LET at == {i \in 1..Len(log) : log[i].rarity = r}
    IN  IF at = {} THEN Len(log)
        ELSE Len(log) - (CHOOSE i \in at : \A j \in at : j <= i)

\* C36: for every rarity, longest_streak is the longest run of pulls of that
\* rarity, longest_drought the longest run of pulls of other rarities,
\* current_drought the number of pulls since the last pull of that rarity;
\* once a pull was folded exactly one of current_streak and current_drought
\* is zero, and neither exceeds its longest value.
C36_StreaksAndDroughts ==
    \A r \in Rarities :
        LET st == sm.stats_per_rarity[r]
        IN  /\ st.longest_streak = LongestRun(sm.log, r, TRUE)
            /\ st.longest_drought = LongestRun(sm.log, r, FALSE)
            /\ st.current_drought = SinceLast(sm.log, r)
            /\ sm.len >= 1 => ((st.current_streak = 0) # (st.current_drought = 0))
            /\ st.longest_streak >= st.current_streak
            /\ st.longest_drought >= st.current_drought

\* C36 witness: a log in which five-star pulls came as a run of two between
\* other pulls, so that the longest streak and the longest drought are both
\* behind the current ones.
C36_Witness ==
    LET st == sm.stats_per_rarity["Five"]
    IN  /\ sm.len = 4
        /\ st.longest_streak = 2
        /\ st.current_streak = 0
        /\ st.current_drought = 1
        /\ st.longest_drought = 1
====
